---- MODULE Spec2Model ----
(***************************************************************************)
(* Quotation generator: the PDF renderer (server/pdfGenerator.ts), the     *)
(* saved-quotation view (client/src/pages/QuotationView.tsx) and the three *)
(* placeholder interpolators.                                              *)
(*                                                                         *)
(* Lengths are in thousandths of a PDF point (1pt = 1000), so that 9.5pt,  *)
(* 595.28pt and 841.89pt are integers.  A text of k lines set at font size *)
(* s occupies k * LineHeight(s); the generator itself assumes one line per *)
(* field and per table cell (it advances its own cursor y by constants).   *)
(* Pages are added by the generator's doc.addPage() calls only.            *)
(***************************************************************************)
EXTENDS Integers, Sequences, FiniteSets, TLC

VARIABLES
    design,       \* ProposalDesign: paperSize, fontSize, showBorderLines
    data,         \* QuotationPDFData + CompanyBranding, abstracted (see DataOf)
    pc,           \* position of generateQuotationPDF
    y,            \* the generator's vertical cursor `y`
    nPages,       \* pages of the document so far (content goes to the last one)
    idx,          \* forEach index of the item-row loop (0-based, next row)
    sec,          \* index into textSections (1-based, next section)
    blocks,       \* blocks emitted so far, in emission order
    rows,         \* item rows drawn so far
    pagesCount,   \* pages.count, read by doc.bufferedPageRange()
    fi,           \* footer loop variable i
    stamps,       \* footers stamped so far
    viewBlocks,   \* what QuotationView rendered (<<>> before it rendered)
    viewRows,     \* the stripe of each <tr> QuotationView rendered
    viewDone,     \* QuotationView has rendered
    tpl,          \* template text handed to the interpolators
    ipc,          \* position of the interpolation run
    outPdf,       \* interpolateVars(tpl, vars)        (PDF generator)
    outView,      \* interpolateText(tpl, vars)        (saved-quotation view)
    outWizard,    \* interpolateTemplate(tpl, variables) (wizard)
    logoBuffer,   \* let logoBuffer: "null", or the kind of bytes the fetch gave
    requests,     \* http(s).get calls made by fetchImage for this render
    warnings,     \* console.warn calls of generateQuotationPDF
    previewBlocks, \* what the wizard's Step4Preview rendered
    previewDone,  \* Step4Preview has rendered
    rpc,          \* position of the GET /api/quotation/:id/pdf handler
    reqId,        \* req.params.id, a string of characters
    owned,        \* ids of the quotations the caller owns
    authed,       \* sdk.authenticateRequest resolved (TRUE) or rejected (FALSE)
    fault,        \* what failed in the handler's try block, "none" if nothing
    res,          \* the responses sent on res, in order
    self,         \* the call of generateQuotationPDF whose code is running
    args,         \* args[c]: the data and design call c was given
    parked,       \* parked[c]: the locals of call c, saved while it does not run
    entry,        \* <<pc, requests>> of the running call when it last got to run
    mixed,        \* mixed[c]: another call ran while call c was in flight
    amountStr,    \* the string given to formatCurrency of the PDF generator
    num,          \* the number given to formatCurrency of the client
    dateStr,      \* the string given to formatDate and formatDateShort
    fpc,          \* position of the formatting run
    outAmount,    \* what formatCurrency(amountStr) did     (PDF generator)
    outNum,       \* what formatCurrency(num) did         (client)
    outDate,      \* what formatDate(dateStr) did
    outDateShort, \* what formatDateShort(dateStr) did
    items,        \* useQuotationStore: the line items
    conditions,   \* useQuotationStore: the commercial conditions (freightValue)
    subtotal,     \* useQuotationStore: subtotal
    totalDiscount,\* useQuotationStore: totalDiscount
    grandTotal,   \* useQuotationStore: grandTotal
    sent,        \* what handleSave sent to the server, newest last
    quotations,   \* the rows of table quotations
    creating,     \* quotation.create calls between their two queries
    insertId,     \* the AUTO_INCREMENT of table quotations
    now,          \* the database clock
    reply,        \* what the last finished tRPC call returned or threw
    designRows,   \* the rows of table design_settings
    lastSaved,    \* lastSaved[u]: the input of user u's last design.save
    currentStep,  \* useQuotationStore: the step the wizard shows
    completedSteps, \* useQuotationStore: the steps marked complete
    customerName, \* useQuotationStore: info.customerName
    isAuthenticated, \* useAuth().isAuthenticated
    approved,     \* Step4Preview: approved
    savedId,      \* Step4Preview: savedId, 0 for null
    saving,       \* quotation.create mutations in flight, newest last
    cnpjField,    \* useQuotationStore: info.customerCNPJ
    customerCompany, \* useQuotationStore: info.customerCompany
    debounce,     \* the pending timer of debounceRef, with the digits it holds
    lastLookedUp, \* lastLookedUpRef.current
    fetches,      \* the fetch calls of lookup in flight
    abortRef,     \* abortRef.current: the newest controller, 0 for null
    loading,      \* useCnpjLookup: loading
    lookupError,  \* useCnpjLookup: error
    lookupData,   \* useCnpjLookup: data
    autofill,     \* the last auto-fill: the CNPJ answered and the field then
    lastSettled   \* the lookup that settled last: superseded, changed

pdfState == <<pc, y, nPages, idx, sec, blocks, rows, pagesCount, fi, stamps>>
viewState == <<viewBlocks, viewRows, viewDone>>
interpState == <<tpl, ipc, outPdf, outView, outWizard>>
logoState == <<logoBuffer, requests, warnings>>
previewState == <<previewBlocks, previewDone>>
routeState == <<rpc, reqId, owned, authed, fault, res>>
callState == <<self, args, parked, entry, mixed>>
formatState == <<amountStr, num, dateStr, fpc, outAmount, outNum, outDate, outDateShort>>
storeState == <<items, conditions, subtotal, totalDiscount, grandTotal, sent>>
dbState == <<quotations, creating, insertId, now, reply, designRows, lastSaved>>
wizardState == <<currentStep, completedSteps, customerName, isAuthenticated, approved,
                savedId, saving>>
cnpjState == <<cnpjField, customerCompany, debounce, lastLookedUp, fetches, abortRef,
              loading, lookupError, lookupData, autofill, lastSettled>>
appState == <<dbState, wizardState, cnpjState>>
auxState == <<previewState, routeState, callState, formatState, storeState, appState>>
vars == <<design, data, pdfState, viewState, interpState, logoState, auxState>>

(***************************************************************************)
(* Bounds of the model.                                                    *)
(***************************************************************************)
MaxItems == 46
MaxTextLines == 26
MaxDescLines == 2
MaxDocItems == 2
MaxTplLen == 4
MaxRequests == 4
MaxIdLen == 2
MaxCalls == 3
MaxAmountLen == 3
MaxStoreItems == 2
MaxSaved == 1
MaxClock == 2
MaxInflight == 2
MaxLookups == 3

(***************************************************************************)
(* Page geometry and font sizes.                                           *)
(***************************************************************************)
margin == 40000

headerHeight == 80000

pageWidth(d) == IF d.paperSize = "Letter" THEN 612000 ELSE 595280

pageHeightOfA4(d) == 841890

pageHeight(d) == IF d.paperSize = "Letter" THEN 792000 ELSE 841890

contentWidth(d) == pageWidth(d) - margin * 2

\* new PDFDocument({size, margins}): the size name and the margins declared.
DocumentSize(d) == IF d.paperSize = "Letter" THEN "LETTER" ELSE "A4"

DocumentMargins == [top |-> margin, bottom |-> margin, left |-> margin, right |-> margin]

\* The page PDFKit makes for a size name: <<width, height>>.
PdfKitSize(size) == IF size = "LETTER" THEN <<612000, 792000>> ELSE <<595280, 841890>>

getFontSize(base) ==
    CASE base = "small" ->
           [title |-> 18000, section |-> 12000, body |-> 8000, small |-> 7000, mono |-> 8000]
      [] base = "large" ->
           [title |-> 24000, section |-> 16000, body |-> 11000, small |-> 9000, mono |-> 11000]
      [] OTHER ->
           [title |-> 22000, section |-> 14000, body |-> 9500, small |-> 8000, mono |-> 9500]

fs == getFontSize(design.fontSize)

\* Height of one line of Helvetica at font size s (doc.y advances by this
\* much per line of a doc.text call): 1.156 * s.
LineHeight(s) == (s * 1156) \div 1000

\* doc.y after doc.text(text, x, top, ...) of `lines` lines at font size s.
DocYAfterText(top, lines, s) == top + lines * LineHeight(s)

bottomMargin == pageHeight(design) - margin

(***************************************************************************)
(* Input families.                                                         *)
(***************************************************************************)
PaperSizes == {"A4", "Letter"}
FontSizes == {"small", "medium", "large"}
\* The designs of the layout runs; they draw no logo.
Designs == [paperSize : PaperSizes, fontSize : FontSizes, showBorderLines : BOOLEAN,
            showLogo : {FALSE}]

OptionalCustomer == {"customerCompany", "customerCNPJ", "customerEmail",
                     "customerPhone", "customerAddress", "reference"}
ConditionFields == {"paymentTerms", "deliveryTime", "freight", "warranty"}
CompanyContacts == {"phone", "email"}
TextSlots == {"headerText", "introNotes", "commercialNotes", "technicalNotes",
              "closingNotes", "footerText"}

\* A quotation as the renderers see it:
\*   nItems       data.items.length
\*   descLines    lines the item descriptions take in the description column
\*   present      the optional customer fields (and reference) that are non-empty
\*   conds        the condition texts that are non-empty
\*   company      the company contact fields that are non-empty
\*   freightPos   conditions.freightValue > 0
\*   discountPos  totalDiscount > 0
\*   subtotalPos  subtotal > 0
\*   texts        lines of each text slot, 0 for the empty string
\* customerName and company.companyName are never empty.
NoTexts == [s \in TextSlots |-> 0]

LayoutData ==
    { [nItems |-> n, descLines |-> k, present |-> OptionalCustomer,
       conds |-> ConditionFields, company |-> CompanyContacts,
       freightPos |-> TRUE, discountPos |-> TRUE, subtotalPos |-> TRUE,
       texts |-> [NoTexts EXCEPT !["introNotes"] = a, !["closingNotes"] = c]] :
      n \in 0..MaxItems, k \in 1..MaxDescLines,
      a \in {0, 1, MaxTextLines}, c \in {0, MaxTextLines} }

\* Short quotations with every combination of present and absent parts.
DocData ==
    { [nItems |-> n, descLines |-> 1, present |-> p, conds |-> c,
       company |-> CompanyContacts,
       freightPos |-> f, discountPos |-> d, subtotalPos |-> s, texts |-> t] :
      n \in 0..MaxDocItems, p \in {{}, OptionalCustomer}, c \in {{}, ConditionFields},
      f \in BOOLEAN, d \in BOOLEAN, s \in BOOLEAN, t \in [TextSlots -> {0, 1}] }

(***************************************************************************)
(* generateQuotationPDF, one action per block.                             *)
(***************************************************************************)
Block(kind, top, bottom, content) ==
    [kind |-> kind, page |-> nPages, top |-> top, bottom |-> bottom, content |-> content]

BlockOn(page, kind, top, bottom, content) ==
    [kind |-> kind, page |-> page, top |-> top, bottom |-> bottom, content |-> content]

\* The labels of `fields` (a sequence of [label, shown]) whose value is truthy.
RECURSIVE ShownLabels(_)
ShownLabels(fields) ==
    IF fields = <<>> THEN <<>>
    ELSE (IF Head(fields).shown THEN <<Head(fields).label>> ELSE <<>>)
         \o ShownLabels(Tail(fields))

\* doc.image(logoBuffer, ...) inside try/catch: bytes that are no image make
\* it throw, the catch logs a warning and the header goes on without logo.
LogoEmbedded == logoBuffer = "image" /\ design.showLogo

LogoEmbedFailed == logoBuffer = "notImage" /\ design.showLogo

\* HEADER: the band at the top of the first page, the accent line under it,
\* the logo if there is one, the company name.
DrawHeader ==
    /\ pc = "header"
    /\ blocks' = Append(blocks,
          Block("header", 0,
                headerHeight + (IF design.showBorderLines THEN 3000 ELSE 0),
                (IF LogoEmbedded THEN <<"logo">> ELSE <<>>) \o <<"companyName">>))
    /\ warnings' = IF LogoEmbedFailed THEN warnings + 1 ELSE warnings
    /\ y' = headerHeight + (IF design.showBorderLines THEN 3000 ELSE 0) + 15000
    /\ pc' = "infoBar"
    /\ UNCHANGED <<design, data, nPages, idx, sec, rows, pagesCount, fi, stamps,
                   viewState, interpState, logoBuffer, requests, auxState>>

\* QUOTATION INFO BAR: title, number and date, validity and reference.
DrawInfoBar ==
    /\ pc = "infoBar"
    /\ LET y1 == y + fs.section + 8000
           y2 == y1 + fs.body + 6000
       IN /\ blocks' = Append(blocks,
                Block("infoBar", y, y2 + LineHeight(fs.body),
                      <<"PROPOSTA COMERCIAL", "No", "Data", "Validade">>
                      \o (IF "reference" \in data.present THEN <<"Ref.">> ELSE <<>>)))
          /\ y' = y2 + fs.body + 12000
    /\ pc' = "customer"
    /\ UNCHANGED <<design, data, nPages, idx, sec, rows, pagesCount, fi, stamps,
                   viewState, interpState, logoState, auxState>>

customerFields ==
    << [label |-> "Cliente",  shown |-> TRUE],
       [label |-> "Empresa",  shown |-> "customerCompany" \in data.present],
       [label |-> "CNPJ",     shown |-> "customerCNPJ" \in data.present],
       [label |-> "E-mail",   shown |-> "customerEmail" \in data.present],
       [label |-> "Telefone", shown |-> "customerPhone" \in data.present],
       [label |-> "Endereco", shown |-> "customerAddress" \in data.present] >>

\* CUSTOMER SECTION: the section header, then one line per non-empty field.
DrawCustomer ==
    /\ pc = "customer"
    /\ LET labels == ShownLabels(customerFields)
           y1 == y + fs.section + 16000
           yEnd == y1 + Len(labels) * (fs.body + 4000)
           bottom == IF labels = <<>> THEN y + fs.section + 10000
                     ELSE yEnd - (fs.body + 4000) + LineHeight(fs.body)
       IN /\ blocks' = Append(blocks,
                Block("customer", y, bottom, <<"DADOS DO CLIENTE">> \o labels))
          /\ y' = yEnd + 12000
    /\ pc' = "headerText"
    /\ UNCHANGED <<design, data, nPages, idx, sec, rows, pagesCount, fi, stamps,
                   viewState, interpState, logoState, auxState>>

\* INTRO TEXT: texts.headerText, when it is not empty.
DrawHeaderText ==
    /\ pc = "headerText"
    /\ IF data.texts["headerText"] > 0
       THEN LET docY == DocYAfterText(y, data.texts["headerText"], fs.body)
            IN /\ blocks' = Append(blocks, Block("headerText", y, docY, <<>>))
               /\ y' = docY + 10000
       ELSE UNCHANGED <<blocks, y>>
    /\ pc' = "introNotes"
    /\ UNCHANGED <<design, data, nPages, idx, sec, rows, pagesCount, fi, stamps,
                   viewState, interpState, logoState, auxState>>

\* INTRO TEXT: texts.introNotes, when it is not empty.
DrawIntroNotes ==
    /\ pc = "introNotes"
    /\ IF data.texts["introNotes"] > 0
       THEN LET docY == DocYAfterText(y, data.texts["introNotes"], fs.body)
            IN /\ blocks' = Append(blocks, Block("introNotes", y, docY, <<>>))
               /\ y' = docY + 12000
       ELSE UNCHANGED <<blocks, y>>
    /\ pc' = "table"
    /\ UNCHANGED <<design, data, nPages, idx, sec, rows, pagesCount, fi, stamps,
                   viewState, interpState, logoState, auxState>>

tableColumns == <<"#", "Descricao", "Un.", "Qtd.", "Valor Un.", "Desc.%", "Subtotal">>

tableHeaderH == fs.body + 10000

\* ITEMS TABLE: the page check before the table, then the table header.
DrawTableHeader ==
    /\ pc = "table"
    /\ LET newPage == y > pageHeight(design) - 250000
           y0 == IF newPage THEN margin ELSE y
           page == IF newPage THEN nPages + 1 ELSE nPages
       IN /\ nPages' = page
          /\ blocks' = Append(blocks,
                BlockOn(page, "tableHeader", y0, y0 + tableHeaderH, tableColumns))
          /\ y' = y0 + tableHeaderH
    /\ idx' = 0
    /\ pc' = "rows"
    /\ UNCHANGED <<design, data, sec, rows, pagesCount, fi, stamps,
                   viewState, interpState, logoState, auxState>>

rowH == fs.body + 8000

\* A stripe on the even rows instead of the odd ones.
RowShadedEven(i) == i % 2 = 0

RowShaded(i) == i % 2 = 1

\* One iteration of data.items.forEach: the page break, the stripe, the cells.
DrawRow ==
    /\ pc = "rows"
    /\ idx < data.nItems
    /\ LET newPage == y > pageHeight(design) - 80000
           y0 == IF newPage THEN margin ELSE y
           page == IF newPage THEN nPages + 1 ELSE nPages
           rowY == y0 + 4000
       IN /\ nPages' = page
          /\ rows' = Append(rows,
                [idx |-> idx, page |-> page, top |-> y0, rowH |-> rowH,
                 lines |-> data.descLines,
                 textBottom |-> DocYAfterText(rowY, data.descLines, fs.small),
                 shaded |-> RowShaded(idx), broke |-> newPage])
          /\ y' = y0 + rowH
    /\ idx' = idx + 1
    /\ UNCHANGED <<design, data, pc, sec, blocks, pagesCount, fi, stamps,
                   viewState, interpState, logoState, auxState>>

\* The item loop has run through data.items.
EndRows ==
    /\ pc = "rows"
    /\ idx = data.nItems
    /\ pc' = "totals"
    /\ UNCHANGED <<design, data, y, nPages, idx, sec, blocks, rows, pagesCount, fi,
                   stamps, viewState, interpState, logoState, auxState>>

\* TOTALS: subtotal, discount and freight lines, the emphasised grand total.
TotalsLines ==
    <<"Subtotal:", "fmt(subtotal)">>
    \o (IF data.discountPos THEN <<"Desconto:", "-fmt(totalDiscount)">> ELSE <<>>)
    \o (IF data.freightPos THEN <<"Frete:", "fmt(freightValue)">> ELSE <<>>)
    \o <<"TOTAL:", "fmt(grandTotal)">>

DrawTotals ==
    /\ pc = "totals"
    /\ LET top == y + 6000
           y1 == top + (fs.body + 4000)
           y2 == y1 + (IF data.discountPos THEN fs.body + 4000 ELSE 0)
           y3 == y2 + (IF data.freightPos THEN fs.body + 4000 ELSE 0)
           y4 == y3 + 2000
       IN /\ blocks' = Append(blocks,
                Block("totals", top, (y4 - 2000) + fs.section + 10000, TotalsLines))
          /\ y' = y4 + fs.section + 18000
    /\ pc' = "conditions"
    /\ UNCHANGED <<design, data, nPages, idx, sec, rows, pagesCount, fi, stamps,
                   viewState, interpState, logoState, auxState>>

condFields ==
    << [label |-> "Pagamento",        shown |-> "paymentTerms" \in data.conds],
       [label |-> "Prazo de Entrega", shown |-> "deliveryTime" \in data.conds],
       [label |-> "Frete",            shown |-> "freight" \in data.conds \/ data.freightPos],
       [label |-> "Garantia",         shown |-> "warranty" \in data.conds] >>

\* CONDITIONS: the page check, the section header, one line per non-empty field.
DrawConditions ==
    /\ pc = "conditions"
    /\ LET newPage == y > pageHeight(design) - 200000
           y0 == IF newPage THEN margin ELSE y
           page == IF newPage THEN nPages + 1 ELSE nPages
           labels == ShownLabels(condFields)
           y1 == y0 + fs.section + 16000
           yEnd == y1 + Len(labels) * (fs.body + 4000)
           bottom == IF labels = <<>> THEN y0 + fs.section + 10000
                     ELSE yEnd - (fs.body + 4000) + LineHeight(fs.body)
       IN /\ nPages' = page
          /\ blocks' = Append(blocks,
                BlockOn(page, "conditions", y0, bottom,
                        <<"CONDICOES COMERCIAIS">> \o labels))
          /\ y' = yEnd + 12000
    /\ sec' = 1
    /\ pc' = "texts"
    /\ UNCHANGED <<design, data, idx, rows, pagesCount, fi, stamps,
                   viewState, interpState, logoState, auxState>>

\* The text sections with the closing notes ahead of the others.
textSectionsClosingFirst ==
    << [title |-> "Encerramento",           slot |-> "closingNotes"],
       [title |-> "Observacoes Comerciais", slot |-> "commercialNotes"],
       [title |-> "Observacoes Tecnicas",   slot |-> "technicalNotes"] >>

textSections ==
    << [title |-> "Observacoes Comerciais", slot |-> "commercialNotes"],
       [title |-> "Observacoes Tecnicas",   slot |-> "technicalNotes"],
       [title |-> "Encerramento",           slot |-> "closingNotes"] >>

\* ADDITIONAL TEXTS: one iteration of the loop over textSections.
DrawTextSection ==
    /\ pc = "texts"
    /\ sec <= Len(textSections)
    /\ LET section == textSections[sec]
           lines == data.texts[section.slot]
           newPage == y > pageHeight(design) - 100000
           y0 == IF newPage THEN margin ELSE y
           page == IF newPage THEN nPages + 1 ELSE nPages
           docY == DocYAfterText(y0 + fs.body + 6000, lines, fs.body)
       IN IF lines > 0
          THEN /\ nPages' = page
               /\ blocks' = Append(blocks,
                     BlockOn(page, section.slot, y0, docY, <<section.title>>))
               /\ y' = docY + 10000
          ELSE UNCHANGED <<nPages, blocks, y>>
    /\ sec' = sec + 1
    /\ UNCHANGED <<design, data, pc, idx, rows, pagesCount, fi, stamps,
                   viewState, interpState, logoState, auxState>>

\* FOOTER: const pages = doc.bufferedPageRange(), once the sections are done.
StartFooters ==
    /\ pc = "texts"
    /\ sec > Len(textSections)
    /\ pagesCount' = nPages
    /\ fi' = 0
    /\ pc' = "footer"
    /\ UNCHANGED <<design, data, y, nPages, idx, sec, blocks, rows, stamps,
                   viewState, interpState, logoState, auxState>>

\* A footer that is texts.footerText whether or not it is empty.
footerTextWithoutFallback == <<"footerText">>

footerText ==
    IF data.texts["footerText"] > 0
    THEN <<"footerText">>
    ELSE <<"companyName">>
         \o (IF "phone" \in data.company THEN <<" | ", "phone">> ELSE <<>>)
         \o (IF "email" \in data.company THEN <<" | ", "email">> ELSE <<>>)

\* A page label that counts from 0, like the loop variable.
PageLabelFromZero(i) == [x |-> i, of |-> pagesCount]

\* The page label of footer loop iteration i: `Pagina ${i + 1} de ${pages.count}`.
PageLabel(i) == [x |-> i + 1, of |-> pagesCount]

\* FOOTER: one iteration of the loop over the buffered pages.
StampFooter ==
    /\ pc = "footer"
    /\ fi < pagesCount
    /\ stamps' = Append(stamps,
          [page |-> fi + 1, line |-> design.showBorderLines,
           text |-> footerText, label |-> PageLabel(fi)])
    /\ blocks' = Append(blocks,
          BlockOn(fi + 1, "footer", pageHeight(design) - 35000,
                  pageHeight(design) - 30000 + LineHeight(fs.small - 1000),
                  footerText))
    /\ fi' = fi + 1
    /\ UNCHANGED <<design, data, pc, y, nPages, idx, sec, rows, pagesCount,
                   viewState, interpState, logoState, auxState>>

\* Finalize: doc.end(), the promise resolves with the buffer.
Finalize ==
    /\ pc = "footer"
    /\ fi >= pagesCount
    /\ pc' = "done"
    /\ UNCHANGED <<design, data, y, nPages, idx, sec, blocks, rows, pagesCount, fi,
                   stamps, viewState, interpState, logoState, auxState>>

(***************************************************************************)
(* The logo stage of generateQuotationPDF and fetchImage.  The server's     *)
(* answer to each request is the environment's choice.                      *)
(***************************************************************************)
\* From the call to the logo stage: the fetch is started, with its first
\* request, iff design.showLogo && company.logoUrl.
StartRender ==
    /\ pc = "start"
    /\ IF design.showLogo /\ "logoUrl" \in data.company
       THEN /\ requests' = requests + 1
            /\ pc' = "fetching"
       ELSE /\ requests' = requests
            /\ pc' = "header"
    /\ UNCHANGED <<design, data, y, nPages, idx, sec, blocks, rows, pagesCount, fi,
                   stamps, viewState, interpState, logoBuffer, warnings, auxState>>

\* The response is a 301 or 302 with a Location header: fetchImage calls
\* itself on the location, which makes the next request.
ResponseRedirect ==
    /\ pc = "fetching"
    /\ requests < MaxRequests
    /\ requests' = requests + 1
    /\ UNCHANGED <<design, data, pdfState, viewState, interpState, logoBuffer,
                   warnings, auxState>>

\* Any other response: its body is collected and the promise resolves with
\* the bytes, an image or not.
ResponseEnd ==
    /\ pc = "fetching"
    /\ \E bytes \in {"image", "notImage"} : logoBuffer' = bytes
    /\ pc' = "header"
    /\ UNCHANGED <<design, data, y, nPages, idx, sec, blocks, rows, pagesCount, fi,
                   stamps, viewState, interpState, requests, warnings, auxState>>

\* A rejected fetch that is rethrown instead of caught.
RethrowFetchError == "rejected"

\* Where generateQuotationPDF goes on after catch (e) of the logo fetch.
CatchFetchError == "header"

\* The request or the response fails: the promise rejects, the catch of
\* generateQuotationPDF logs a warning and logoBuffer stays null.
ResponseError ==
    /\ pc = "fetching"
    /\ warnings' = warnings + 1
    /\ pc' = CatchFetchError
    /\ UNCHANGED <<design, data, y, nPages, idx, sec, blocks, rows, pagesCount, fi,
                   stamps, viewState, interpState, logoBuffer, requests, auxState>>

NextPdf ==
    \/ DrawHeader
    \/ DrawInfoBar
    \/ DrawCustomer
    \/ DrawHeaderText
    \/ DrawIntroNotes
    \/ DrawTableHeader
    \/ DrawRow
    \/ EndRows
    \/ DrawTotals
    \/ DrawConditions
    \/ DrawTextSection
    \/ StartFooters
    \/ StampFooter
    \/ Finalize

(***************************************************************************)
(* QuotationView: the document the saved-quotation page renders.  A content *)
(* entry names what is shown (a field, a column, a line) by the label the   *)
(* PDF generator gives it, whichever wording the page uses for it; what     *)
(* only the page shows carries the page's own wording.                      *)
(***************************************************************************)
ViewBlock(kind, content) == [kind |-> kind, content |-> content]

ViewRowShaded(i) == i % 2 = 1

ViewTotalsLines ==
    (IF data.subtotalPos THEN <<"Subtotal:", "fmt(subtotal)">> ELSE <<>>)
    \o (IF data.discountPos THEN <<"Desconto:", "-fmt(totalDiscount)">> ELSE <<>>)
    \o (IF data.freightPos THEN <<"Frete:", "fmt(freightValue)">> ELSE <<>>)
    \o <<"TOTAL:", "fmt(grandTotal)">>

ViewDocument ==
    << ViewBlock("header",
           <<"companyName">>
           \o (IF "phone" \in data.company THEN <<"phone">> ELSE <<>>)
           \o (IF "email" \in data.company THEN <<"email">> ELSE <<>>)),
       ViewBlock("infoBar", <<"PROPOSTA COMERCIAL", "No", "Data", "Validade">>),
       ViewBlock("customer",
           <<"DADOS DO CLIENTE", "Cliente">>
           \o (IF "customerCompany" \in data.present THEN <<"Empresa">> ELSE <<>>)
           \o (IF "customerCNPJ" \in data.present THEN <<"CNPJ">> ELSE <<>>)
           \o (IF "customerEmail" \in data.present THEN <<"E-mail">> ELSE <<>>)
           \o (IF "customerPhone" \in data.present THEN <<"Telefone">> ELSE <<>>)
           \o (IF "customerAddress" \in data.present THEN <<"Endereco">> ELSE <<>>)) >>
    \o (IF "reference" \in data.present
        THEN <<ViewBlock("reference", <<"Referencia">>)>> ELSE <<>>)
    \o (IF data.texts["introNotes"] > 0
        THEN <<ViewBlock("introNotes", <<>>)>> ELSE <<>>)
    \o << ViewBlock("tableHeader", <<"#", "Descricao", "Qtd.", "Valor Un.", "Subtotal">>),
          ViewBlock("totals", ViewTotalsLines) >>
    \o (IF data.texts["commercialNotes"] > 0
        THEN <<ViewBlock("commercialNotes", <<"Condicoes Comerciais">>)>> ELSE <<>>)
    \o (IF data.texts["technicalNotes"] > 0
        THEN <<ViewBlock("technicalNotes", <<"Informacoes Tecnicas">>)>> ELSE <<>>)
    \o (IF data.texts["closingNotes"] > 0
        THEN <<ViewBlock("closingNotes", <<>>)>> ELSE <<>>)
    \o << ViewBlock("footer",
              <<"companyName">>
              \o (IF "phone" \in data.company THEN <<"phone">> ELSE <<>>)
              \o (IF "email" \in data.company THEN <<"email">> ELSE <<>>)
              \o <<"Validade">>) >>

\* QuotationView renders the loaded quotation.
RenderView ==
    /\ ~viewDone
    /\ viewBlocks' = ViewDocument
    /\ viewRows' = [i \in 1..data.nItems |-> [idx |-> i - 1, shaded |-> ViewRowShaded(i - 1)]]
    /\ viewDone' = TRUE
    /\ UNCHANGED <<design, data, pdfState, interpState, logoState, auxState>>

(***************************************************************************)
(* Step4Preview: the document the wizard's last step renders from the       *)
(* store.  body is the number of lines of running text in the block.        *)
(***************************************************************************)
PreviewBlock(kind, content, body) == [kind |-> kind, content |-> content, body |-> body]

PreviewTotalsLines ==
    <<"Subtotal:", "fmt(subtotal)">>
    \o (IF data.discountPos THEN <<"Desconto:", "-fmt(totalDiscount)">> ELSE <<>>)
    \o (IF data.freightPos THEN <<"Frete:", "fmt(freightValue)">> ELSE <<>>)
    \o <<"TOTAL:", "fmt(grandTotal)">>

PreviewDocument ==
    << PreviewBlock("header",
           <<"companyName">>
           \o (IF "phone" \in data.company THEN <<"phone">> ELSE <<>>)
           \o (IF "email" \in data.company THEN <<"email">> ELSE <<>>), 0),
       PreviewBlock("infoBar", <<"PROPOSTA COMERCIAL", "Data", "Validade", "No">>, 0),
       PreviewBlock("customer",
           <<"Cliente">>
           \o (IF "customerCompany" \in data.present THEN <<"Empresa">> ELSE <<>>)
           \o (IF "customerCNPJ" \in data.present THEN <<"CNPJ">> ELSE <<>>)
           \o <<"Contato">>
           \o (IF "customerAddress" \in data.present THEN <<"Endereco">> ELSE <<>>), 0) >>
    \o (IF "reference" \in data.present
        THEN <<PreviewBlock("reference", <<"Referencia">>, 0)>> ELSE <<>>)
    \o << PreviewBlock("introNotes", <<>>, data.texts["introNotes"]),
          PreviewBlock("tableHeader",
              <<"#", "Descricao", "Un.", "Qtd.", "Valor Un.">>
              \o (IF data.discountPos THEN <<"Desc.%">> ELSE <<>>)
              \o <<"Subtotal">>, 0),
          PreviewBlock("totals", PreviewTotalsLines, 0),
          PreviewBlock("commercialNotes", <<"Condicoes Comerciais">>,
                       data.texts["commercialNotes"]),
          PreviewBlock("technicalNotes", <<"Informacoes Tecnicas">>,
                       data.texts["technicalNotes"]),
          PreviewBlock("closingNotes", <<>>, data.texts["closingNotes"]),
          PreviewBlock("footer",
              <<"companyName">>
              \o (IF "phone" \in data.company THEN <<"phone">> ELSE <<>>)
              \o (IF "email" \in data.company THEN <<"email">> ELSE <<>>)
              \o <<"Validade">>, 0) >>

\* Step4Preview renders the store's quotation.
RenderPreview ==
    /\ ~previewDone
    /\ previewBlocks' = PreviewDocument
    /\ previewDone' = TRUE
    /\ UNCHANGED <<design, data, pdfState, viewState, interpState, logoState,
                   routeState, callState, formatState, storeState, appState>>

(***************************************************************************)
(* Placeholder interpolation.  A text is a sequence of tokens: "$", "{",    *)
(* "}", "," (any character that is no word character) and words (maximal    *)
(* runs of word characters, one token each).  An output token is a token of *)
(* the text (Lit) or the value of a field (Val).                            *)
(***************************************************************************)
Lit(t) == [t |-> "lit", s |-> t]
Val(f) == [t |-> "val", s |-> f]

Lits(text) == [i \in 1..Len(text) |-> Lit(text[i])]

\* The placeholder names of the documented vocabulary.
Vocabulary ==
    {"customerName", "customerCompany", "customerEmail", "customerPhone",
     "customerCNPJ", "customerAddress", "reference", "validityDays",
     "quotationDate", "createdAt", "grandTotal", "subtotal", "totalDiscount",
     "companyName", "companyPhone", "companyEmail", "paymentTerms",
     "deliveryTime", "freight", "warranty"}

\* Names every JavaScript object inherits: vars["constructor"] is a function.
ObjectPrototypeKeys == {"constructor"}

Words == Vocabulary \cup {"quotationNumber", "foo"} \cup ObjectPrototypeKeys

\* The value of an optional field: its text, or the empty string.
OrEmpty(f, isPresent) == IF isPresent THEN <<Val(f)>> ELSE <<>>

\* The value of a wizard field: its text, or the wizard's stand-in for it.
OrStandIn(f, isPresent) == IF isPresent THEN <<Val(f)>> ELSE <<Val("[stand-in]")>>

\* const vars of generateQuotationPDF.
varsPdf ==
    [k \in {"customerName", "customerCompany", "customerEmail", "customerPhone",
            "quotationNumber", "quotationDate", "validityDays", "grandTotal",
            "subtotal", "totalDiscount", "companyName", "companyPhone",
            "companyEmail"} |->
        CASE k = "customerCompany" -> OrEmpty(k, "customerCompany" \in data.present)
          [] k = "customerEmail" -> OrEmpty(k, "customerEmail" \in data.present)
          [] k = "customerPhone" -> OrEmpty(k, "customerPhone" \in data.present)
          [] k = "companyPhone" -> OrEmpty(k, "phone" \in data.company)
          [] k = "companyEmail" -> OrEmpty(k, "email" \in data.company)
          [] k \in {"grandTotal", "subtotal", "totalDiscount"} -> <<Val("fmt(" \o k \o ")")>>
          [] OTHER -> <<Val(k)>>]

\* const vars of QuotationView.
varsView ==
    [k \in {"customerName", "customerEmail", "customerPhone", "customerCompany",
            "customerCNPJ", "customerAddress", "reference", "validityDays",
            "createdAt", "paymentTerms", "deliveryTime", "freight", "warranty",
            "grandTotal"} |->
        CASE k \in OptionalCustomer -> OrEmpty(k, k \in data.present)
          [] k \in ConditionFields -> OrEmpty(k, k \in data.conds)
          [] k = "createdAt" -> <<Val("fmtDate(quotationDate)")>>
          [] k = "grandTotal" -> <<Val("fmt(grandTotal)")>>
          [] OTHER -> <<Val(k)>>]

\* const variables of the wizard's preview (Step4Preview).
variablesWizard ==
    [k \in {"customerName", "customerEmail", "customerPhone", "customerCompany",
            "customerCNPJ", "customerAddress", "reference", "validityDays",
            "createdAt", "paymentTerms", "deliveryTime", "freight", "warranty",
            "grandTotal"} |->
        CASE k \in OptionalCustomer -> OrStandIn(k, k \in data.present)
          [] k \in ConditionFields -> OrEmpty(k, k \in data.conds)
          [] k = "createdAt" -> <<Val("fmtDate(quotationDate)")>>
          [] k = "grandTotal" -> <<Val("fmt(grandTotal)")>>
          [] OTHER -> <<Val(k)>>]

\* map[key] of a JavaScript object: the entry, else what Object.prototype
\* gives, else undefined.  A key of several word tokens names no entry.
Lookup(map, key) ==
    IF Len(key) = 1 /\ key[1] \in DOMAIN map
    THEN [defined |-> TRUE, value |-> map[key[1]]]
    ELSE IF Len(key) = 1 /\ key[1] \in ObjectPrototypeKeys
    THEN [defined |-> TRUE, value |-> <<Val("Object.prototype")>>]
    ELSE [defined |-> FALSE, value |-> <<>>]

\* The number of word tokens of text from position i on (\w+, greedy).
RECURSIVE WordRun(_, _)
WordRun(text, i) ==
    IF i <= Len(text) /\ text[i] \in Words THEN 1 + WordRun(text, i + 1) ELSE 0

\* The matches of /\$\{(\w+)\}/g in text from position i on, left to right,
\* and the tokens between them.
RECURSIVE Segments(_, _)
Segments(text, i) ==
    IF i > Len(text) THEN <<>>
    ELSE LET n == WordRun(text, i + 2)
         IN IF /\ text[i] = "$"
               /\ i + 1 <= Len(text)
               /\ text[i + 1] = "{"
               /\ n >= 1
               /\ i + 2 + n <= Len(text)
               /\ text[i + 2 + n] = "}"
            THEN <<[match |-> TRUE, key |-> SubSeq(text, i + 2, i + 1 + n),
                    text |-> SubSeq(text, i, i + 2 + n)]>>
                 \o Segments(text, i + 3 + n)
            ELSE <<[match |-> FALSE, key |-> <<>>, text |-> <<text[i]>>]>>
                 \o Segments(text, i + 1)

\* (_, key) => vars[key] || ""
VarsCallback(map, seg) ==
    LET v == Lookup(map, seg.key)
    IN IF v.defined /\ v.value # <<>> THEN v.value ELSE <<>>

\* (_, key) => vars[key] ?? `${key}`
TextCallback(map, seg) ==
    LET v == Lookup(map, seg.key)
    IN IF v.defined THEN v.value ELSE Lits(seg.text)

\* (match, key) => value === undefined ? match : String(value)
TemplateCallback(map, seg) ==
    LET v == Lookup(map, seg.key)
    IN IF ~v.defined THEN Lits(seg.text) ELSE v.value

\* String.prototype.replace with a callback: the matches replaced, the rest kept.
RECURSIVE ReplaceAll(_, _, _)
ReplaceAll(segs, map, callback) ==
    IF segs = <<>> THEN <<>>
    ELSE LET seg == Head(segs)
         IN (IF ~seg.match THEN Lits(seg.text)
             ELSE CASE callback = "vars" -> VarsCallback(map, seg)
                    [] callback = "text" -> TextCallback(map, seg)
                    [] OTHER -> TemplateCallback(map, seg))
            \o ReplaceAll(Tail(segs), map, callback)

interpolateVars(text, map) == ReplaceAll(Segments(text, 1), map, "vars")

interpolateText(template, map) == ReplaceAll(Segments(template, 1), map, "text")

interpolateTemplate(template, variables) ==
    ReplaceAll(Segments(template, 1), variables, "template")

\* The PDF generator interpolates a text slot.
InterpolatePdf ==
    /\ ipc = "pdf"
    /\ outPdf' = interpolateVars(tpl, varsPdf)
    /\ ipc' = "view"
    /\ UNCHANGED <<design, data, pdfState, viewState, logoState, auxState, tpl, outView, outWizard>>

\* The saved-quotation view interpolates the same text.
InterpolateView ==
    /\ ipc = "view"
    /\ outView' = interpolateText(tpl, varsView)
    /\ ipc' = "wizard"
    /\ UNCHANGED <<design, data, pdfState, viewState, logoState, auxState, tpl, outPdf, outWizard>>

\* The wizard interpolates the same text.
InterpolateWizard ==
    /\ ipc = "wizard"
    /\ outWizard' = interpolateTemplate(tpl, variablesWizard)
    /\ ipc' = "done"
    /\ UNCHANGED <<design, data, pdfState, viewState, logoState, auxState, tpl, outPdf, outView>>

NextInterp ==
    \/ InterpolatePdf
    \/ InterpolateView
    \/ InterpolateWizard

\* generateQuotationPDF from the call to the resolved promise.
NextRender ==
    \/ StartRender
    \/ ResponseRedirect
    \/ ResponseEnd
    \/ ResponseError
    \/ NextPdf

(***************************************************************************)
(* The PDF download endpoint, GET /api/quotation/:id/pdf.                   *)
(***************************************************************************)
Digits == {"1", "7"}

IdChars == Digits \cup {"x"}

\* The values :id can take: the non-empty strings of at most MaxIdLen characters.
RequestIds == UNION {[1..n -> IdChars] : n \in 1..MaxIdLen}

StoredIds == {1, 17}

\* The longest prefix of str made of decimal digits.
RECURSIVE DigitPrefix(_)
DigitPrefix(str) ==
    IF str # <<>> /\ Head(str) \in Digits
    THEN <<Head(str)>> \o DigitPrefix(Tail(str))
    ELSE <<>>

DigitValue(c) == IF c = "1" THEN 1 ELSE 7

RECURSIVE Decimal(_)
Decimal(ds) ==
    IF ds = <<>> THEN 0
    ELSE Decimal(SubSeq(ds, 1, Len(ds) - 1)) * 10 + DigitValue(ds[Len(ds)])

\* parseInt(str): the number its leading digits spell, whatever follows
\* them; NaN when it does not start with a digit.
parseInt(str) ==
    LET ds == DigitPrefix(str)
    IN [isNaN |-> ds = <<>>, value |-> Decimal(ds)]

Json(status) == [status |-> status, type |-> "json"]

Pdf == [status |-> 200, type |-> "pdf"]

\* sdk.authenticateRequest(req) rejects: 401.
AuthenticateFails ==
    /\ rpc = "authenticate"
    /\ authed' = FALSE
    /\ res' = Append(res, Json(401))
    /\ rpc' = "end"
    /\ UNCHANGED <<design, data, pdfState, viewState, interpState, logoState,
                   previewState, callState, formatState, storeState, appState, reqId, owned, fault>>

\* sdk.authenticateRequest(req) resolves; the id is parsed: 400 if it is NaN,
\* else getQuotation(quotationId, user.id) is called.
Authenticate ==
    /\ rpc = "authenticate"
    /\ authed' = TRUE
    /\ IF parseInt(reqId).isNaN
       THEN /\ res' = Append(res, Json(400))
            /\ rpc' = "end"
       ELSE /\ res' = res
            /\ rpc' = "getQuotation"
    /\ UNCHANGED <<design, data, pdfState, viewState, interpState, logoState,
                   previewState, callState, formatState, storeState, appState, reqId, owned, fault>>

\* getQuotation resolves: 404 if the caller owns no such quotation, else
\* getDesignSettings(user.id) is called.
GetQuotation ==
    /\ rpc = "getQuotation"
    /\ IF parseInt(reqId).value \notin owned
       THEN /\ res' = Append(res, Json(404))
            /\ rpc' = "end"
       ELSE /\ res' = res
            /\ rpc' = "getDesignSettings"
    /\ UNCHANGED <<design, data, pdfState, viewState, interpState, logoState,
                   previewState, callState, formatState, storeState, appState, reqId, owned,
                   authed, fault>>

\* getQuotation or getDesignSettings rejects: the catch answers 500.
LoadFails ==
    /\ rpc \in {"getQuotation", "getDesignSettings"}
    /\ fault' = "load"
    /\ res' = Append(res, Json(500))
    /\ rpc' = "end"
    /\ UNCHANGED <<design, data, pdfState, viewState, interpState, logoState,
                   previewState, callState, formatState, storeState, appState, reqId, owned, authed>>

\* getDesignSettings resolves: generateQuotationPDF is called.
GetDesignSettings ==
    /\ rpc = "getDesignSettings"
    /\ rpc' = "generate"
    /\ pc' = "start"
    /\ UNCHANGED <<design, data, y, nPages, idx, sec, blocks, rows, pagesCount, fi,
                   stamps, viewState, interpState, logoState, previewState, callState,
                   formatState, storeState, appState, reqId, owned, authed, fault, res>>

\* A call of the drawing library throws, or the document emits "error":
\* the promise of generateQuotationPDF rejects.
RenderThrows ==
    /\ rpc = "generate"
    /\ pc \notin {"start", "fetching", "done", "rejected"}
    /\ pc' = "rejected"
    /\ UNCHANGED <<design, data, y, nPages, idx, sec, blocks, rows, pagesCount, fi,
                   stamps, viewState, interpState, logoState, auxState>>

\* generateQuotationPDF resolved: the three headers and the buffer are sent.
SendPdf ==
    /\ rpc = "generate"
    /\ pc = "done"
    /\ res' = Append(res, Pdf)
    /\ rpc' = "end"
    /\ UNCHANGED <<design, data, pdfState, viewState, interpState, logoState,
                   previewState, callState, formatState, storeState, appState, reqId, owned,
                   authed, fault>>

\* generateQuotationPDF rejected: the catch answers 500.
SendFailure ==
    /\ rpc = "generate"
    /\ pc = "rejected"
    /\ fault' = "render"
    /\ res' = Append(res, Json(500))
    /\ rpc' = "end"
    /\ UNCHANGED <<design, data, pdfState, viewState, interpState, logoState,
                   previewState, callState, formatState, storeState, appState, reqId, owned, authed>>

NextRoute ==
    \/ AuthenticateFails
    \/ Authenticate
    \/ GetQuotation
    \/ LoadFails
    \/ GetDesignSettings
    \/ (rpc = "generate" /\ NextRender)
    \/ RenderThrows
    \/ SendPdf
    \/ SendFailure

(***************************************************************************)
(* Several calls of generateQuotationPDF on the one JavaScript thread.  The *)
(* variables design .. warnings are the locals of the call that is running; *)
(* a call leaves the thread only at an await (the logo fetch, the returned  *)
(* promise), and the event that resumes a call brings its locals back.      *)
(***************************************************************************)
Calls == 1..MaxCalls

\* The locals of the running call.
Current ==
    [design |-> design, data |-> data, pc |-> pc, y |-> y, nPages |-> nPages,
     idx |-> idx, sec |-> sec, blocks |-> blocks, rows |-> rows,
     pagesCount |-> pagesCount, fi |-> fi, stamps |-> stamps,
     logoBuffer |-> logoBuffer, requests |-> requests, warnings |-> warnings]

\* Locals that start from the page count of the call before.
ContextAfterCall(c) ==
    [design |-> args[c].design, data |-> args[c].data, pc |-> "start", y |-> 0,
     nPages |-> c, idx |-> 0, sec |-> 1, blocks |-> <<>>, rows |-> <<>>,
     pagesCount |-> 0, fi |-> 0, stamps |-> <<>>,
     logoBuffer |-> "null", requests |-> 0, warnings |-> 0]

\* The locals call c starts with: its own arguments, a new document of one
\* page, an empty chunk list, no logo.
FreshContext(c) ==
    [design |-> args[c].design, data |-> args[c].data, pc |-> "start", y |-> 0,
     nPages |-> 1, idx |-> 0, sec |-> 1, blocks |-> <<>>, rows |-> <<>>,
     pagesCount |-> 0, fi |-> 0, stamps |-> <<>>,
     logoBuffer |-> "null", requests |-> 0, warnings |-> 0]

\* A call resumed on the document and the cursor of the call that ran last.
ResumeOnSharedDocument(saved, running) ==
    [saved EXCEPT !.y = running.y, !.nPages = running.nPages,
                  !.blocks = running.blocks, !.rows = running.rows]

\* The locals a call resumes with: those it had when it left the thread.
Resume(saved, running) == saved

\* The locals of call c, running or not.
Ctx(c) == IF c = self THEN Current ELSE parked[c]

\* The running call waits (for its logo or for nothing more) and an event
\* of call c comes up: c is called, or the answer to its request arrives.
\* The calls are numbered in the order in which they are made.
Switch(c) ==
    /\ c # self
    /\ pc \in {"fetching", "done"}
    /\ <<pc, requests>> # entry
    /\ parked[c].pc \in {"start", "fetching"}
    /\ parked[c].pc = "start" => \A d \in Calls : d < c => Ctx(d).pc # "start"
    /\ LET ctx == Resume(parked[c], Current)
           inFlight == {d \in Calls \ {c} : Ctx(d).pc = "fetching"}
       IN /\ design' = ctx.design
          /\ data' = ctx.data
          /\ pc' = ctx.pc
          /\ y' = ctx.y
          /\ nPages' = ctx.nPages
          /\ idx' = ctx.idx
          /\ sec' = ctx.sec
          /\ blocks' = ctx.blocks
          /\ rows' = ctx.rows
          /\ pagesCount' = ctx.pagesCount
          /\ fi' = ctx.fi
          /\ stamps' = ctx.stamps
          /\ logoBuffer' = ctx.logoBuffer
          /\ requests' = ctx.requests
          /\ warnings' = ctx.warnings
          /\ entry' = <<ctx.pc, ctx.requests>>
          /\ mixed' = [d \in Calls |->
                         IF inFlight # {} /\ d \in inFlight \cup {c} THEN TRUE
                         ELSE mixed[d]]
    /\ parked' = [parked EXCEPT ![self] = Current]
    /\ self' = c
    /\ UNCHANGED <<args, viewState, interpState, previewState, routeState, formatState,
                   storeState, appState>>

\* Calls whose logo server answers each request with a body or an error.
NextCalls ==
    \/ \E c \in Calls : Switch(c)
    \/ StartRender
    \/ ResponseEnd
    \/ ResponseError
    \/ NextPdf

(***************************************************************************)
(* The currency and date formatters.  A number is NaN, an infinity, or a    *)
(* finite value held in thousandths; what a formatter does is a returned    *)
(* text or a thrown error.                                                  *)
(***************************************************************************)
NaN == [kind |-> "NaN", milli |-> 0]

Infinity(sign) == [kind |-> "Infinity", milli |-> sign]

Finite(milli) == [kind |-> "finite", milli |-> milli]

AmountChars == Digits \cup {".", "-", "x"}

\* The strings of at most MaxAmountLen characters.
AmountStrings == UNION {[1..n -> AmountChars] : n \in 0..MaxAmountLen}

RECURSIVE Pow10(_)
Pow10(n) == IF n = 0 THEN 1 ELSE 10 * Pow10(n - 1)

\* parseFloat(str): the number spelt by the longest prefix of the form
\* [-]digits[.digits] or [-].digits, whatever follows it; NaN when there is
\* no such prefix.
parseFloat(str) ==
    LET negative == str # <<>> /\ Head(str) = "-"
        body == IF negative THEN Tail(str) ELSE str
        int == DigitPrefix(body)
        afterInt == SubSeq(body, Len(int) + 1, Len(body))
        frac == IF afterInt # <<>> /\ Head(afterInt) = "."
                THEN DigitPrefix(Tail(afterInt)) ELSE <<>>
        milli == Decimal(int) * 1000 + (Decimal(frac) * 1000) \div Pow10(Len(frac))
    IN IF int = <<>> /\ frac = <<>> THEN NaN
       ELSE Finite(IF negative THEN 0 - milli ELSE milli)

\* The pieces of a formatted text: a symbol or a number.
Sym(s) == [sym |-> s, n |-> 0]

Number(n) == [sym |-> "number", n |-> n]

Returned(text) == [threw |-> FALSE, text |-> text]

Thrown == [threw |-> TRUE, text |-> <<>>]

\* Intl.NumberFormat("pt-BR", currency BRL).format(n): two decimals rounded
\* half away from zero; NaN and the infinities are formatted too, as text.
NumberFormat(n) ==
    CASE n.kind = "NaN" -> <<Sym("R$"), Sym("NaN")>>
      [] n.kind = "Infinity" ->
           (IF n.milli < 0 THEN <<Sym("-")>> ELSE <<>>) \o <<Sym("R$"), Sym("Infinity")>>
      [] OTHER ->
           LET abs == IF n.milli < 0 THEN 0 - n.milli ELSE n.milli
               cents == (abs + 5) \div 10
           IN (IF n.milli < 0 THEN <<Sym("-")>> ELSE <<>>)
              \o <<Sym("R$"), Number(cents \div 100), Sym(","), Number(cents % 100)>>

\* formatCurrency of pdfGenerator.ts, given a string.
formatCurrency(value) == Returned(NumberFormat(parseFloat(value)))

\* formatCurrency of the client's format utilities, given a number.
formatCurrencyClient(value) == Returned(NumberFormat(value))

\* The date strings: empty, YYYY-MM-DD with the month and day given (valid
\* or out of range), or another text.
DateStrings ==
    {[shape |-> "empty", month |-> 0, day |-> 0],
     [shape |-> "text", month |-> 0, day |-> 0]}
    \cup {[shape |-> "iso", month |-> m, day |-> d] :
            m \in {0, 1, 12, 13}, d \in {0, 1, 28, 32}}

\* new Date(dateStr + "T12:00:00") is a valid date.
ValidDate(str) ==
    /\ str.shape = "iso"
    /\ str.month \in 1..12
    /\ str.day \in 1..28

\* formatDate: "" for the empty string; Intl.DateTimeFormat.format throws a
\* RangeError on an invalid Date.
formatDate(str) ==
    IF str.shape = "empty" THEN Returned(<<>>)
    ELSE IF ~ValidDate(str) THEN Thrown
    ELSE Returned(<<Number(str.day), Sym("de"), Number(str.month), Sym("de"), Sym("year")>>)

formatDateShort(str) ==
    IF str.shape = "empty" THEN Returned(<<>>)
    ELSE IF ~ValidDate(str) THEN Thrown
    ELSE Returned(<<Number(str.day), Sym("/"), Number(str.month), Sym("/"), Sym("year")>>)

\* The PDF generator formats an amount it was given as a string.
FormatAmount ==
    /\ fpc = "amount"
    /\ outAmount' = formatCurrency(amountStr)
    /\ fpc' = "num"
    /\ UNCHANGED <<design, data, pdfState, viewState, interpState, logoState,
                   previewState, routeState, callState, storeState, appState, amountStr, num,
                   dateStr,
                   outNum, outDate, outDateShort>>

\* The client formats a number.
FormatNum ==
    /\ fpc = "num"
    /\ outNum' = formatCurrencyClient(num)
    /\ fpc' = "date"
    /\ UNCHANGED <<design, data, pdfState, viewState, interpState, logoState,
                   previewState, routeState, callState, storeState, appState, amountStr, num,
                   dateStr,
                   outAmount, outDate, outDateShort>>

\* The client formats a date in the long form.
FormatDate ==
    /\ fpc = "date"
    /\ outDate' = formatDate(dateStr)
    /\ fpc' = "dateShort"
    /\ UNCHANGED <<design, data, pdfState, viewState, interpState, logoState,
                   previewState, routeState, callState, storeState, appState, amountStr, num,
                   dateStr,
                   outAmount, outNum, outDateShort>>

\* The client formats a date in the short form.
FormatDateShort ==
    /\ fpc = "dateShort"
    /\ outDateShort' = formatDateShort(dateStr)
    /\ fpc' = "done"
    /\ UNCHANGED <<design, data, pdfState, viewState, interpState, logoState,
                   previewState, routeState, callState, storeState, appState, amountStr, num,
                   dateStr,
                   outAmount, outNum, outDate>>

NextFormat ==
    \/ FormatAmount
    \/ FormatNum
    \/ FormatDate
    \/ FormatDateShort

(***************************************************************************)
(* useQuotationStore: the wizard's store of line items, conditions and      *)
(* totals, and handleSave of the preview step.  Amounts are whole numbers   *)
(* chosen so that every percentage is exact.                                *)
(***************************************************************************)
Quantities == {1, 2}

UnitPrices == {0, 100}

Discounts == {0, 10}

FreightValues == {0, 20}

\* nanoid(8): an id no item of the list has.
FreshId(list) == CHOOSE i \in 1..(Len(list) + 1) : \A k \in 1..Len(list) : list[k].id # i

createEmptyItem(id) ==
    [id |-> id, described |-> FALSE, quantity |-> 1, unitPrice |-> 0, discount |-> 0,
     subtotal |-> 0]

calculateItemSubtotal(item) ==
    LET base == item.quantity * item.unitPrice
        disc == (base * item.discount) \div 100
    IN base - disc

\* items.reduce((sum, i) => sum + i.subtotal, 0)
RECURSIVE SumSubtotal(_)
SumSubtotal(list) ==
    IF list = <<>> THEN 0 ELSE Head(list).subtotal + SumSubtotal(Tail(list))

\* items.reduce((sum, i) => sum + base * (i.discount / 100), 0)
RECURSIVE SumDiscount(_)
SumDiscount(list) ==
    IF list = <<>> THEN 0
    ELSE (Head(list).quantity * Head(list).unitPrice * Head(list).discount) \div 100
         + SumDiscount(Tail(list))

\* What updateItem, removeItem and recalculate store for a new item list.
SetTotals(list) ==
    /\ items' = list
    /\ subtotal' = SumSubtotal(list)
    /\ totalDiscount' = SumDiscount(list)
    /\ grandTotal' = SumSubtotal(list) + conditions.freightValue

StoreRest ==
    UNCHANGED <<design, data, pdfState, viewState, interpState, logoState,
                previewState, routeState, callState, formatState, appState>>

addItem ==
    /\ Len(items) < MaxStoreItems
    /\ items' = Append(items, createEmptyItem(FreshId(items)))
    /\ UNCHANGED <<conditions, subtotal, totalDiscount, grandTotal, sent>>
    /\ StoreRest

\* updateItem(id, updates), one field of the item updated.
updateItem ==
    \E id \in 1..(MaxStoreItems + 1), updates \in
            {[f |-> "quantity", v |-> q] : q \in Quantities}
            \cup {[f |-> "unitPrice", v |-> u] : u \in UnitPrices}
            \cup {[f |-> "discount", v |-> d] : d \in Discounts}
            \cup {[f |-> "described", v |-> b] : b \in BOOLEAN} :
        LET Updated(item) ==
                LET merged == [item EXCEPT ![updates.f] = updates.v]
                IN [merged EXCEPT !.subtotal = calculateItemSubtotal(merged)]
            list == [k \in 1..Len(items) |->
                        IF items[k].id # id THEN items[k] ELSE Updated(items[k])]
        IN /\ SetTotals(list)
           /\ UNCHANGED <<conditions, sent>>
           /\ StoreRest

removeItem ==
    \E id \in 1..(MaxStoreItems + 1) :
        LET kept == SelectSeq(items, LAMBDA item : item.id # id)
            list == IF kept = <<>> THEN <<createEmptyItem(FreshId(kept))>> ELSE kept
        IN /\ SetTotals(list)
           /\ UNCHANGED <<conditions, sent>>
           /\ StoreRest

duplicateItem ==
    \E id \in 1..(MaxStoreItems + 1) :
        /\ Len(items) < MaxStoreItems
        /\ IF \E k \in 1..Len(items) : items[k].id = id
           THEN LET source == items[CHOOSE k \in 1..Len(items) : items[k].id = id]
                IN items' = Append(items, [source EXCEPT !.id = FreshId(items)])
           ELSE items' = items
        /\ UNCHANGED <<conditions, subtotal, totalDiscount, grandTotal, sent>>
        /\ StoreRest

updateConditions ==
    \E freightValue \in FreightValues :
        /\ conditions' = [conditions EXCEPT !.freightValue = freightValue]
        /\ grandTotal' = subtotal + freightValue
        /\ UNCHANGED <<items, subtotal, totalDiscount, sent>>
        /\ StoreRest

recalculate ==
    /\ SetTotals([k \in 1..Len(items) |->
                    [items[k] EXCEPT !.subtotal = calculateItemSubtotal(items[k])]])
    /\ UNCHANGED <<conditions, sent>>
    /\ StoreRest

resetQuotation ==
    /\ items' = <<createEmptyItem(1)>>
    /\ conditions' = [freightValue |-> 0]
    /\ subtotal' = 0
    /\ totalDiscount' = 0
    /\ grandTotal' = 0
    /\ currentStep' = 1
    /\ completedSteps' = {}
    /\ customerName' = ""
    /\ cnpjField' = ""
    /\ customerCompany' = ""
    /\ UNCHANGED <<sent, isAuthenticated, approved, savedId, saving>>
    /\ UNCHANGED <<debounce, lastLookedUp, fetches, abortRef, loading, lookupError,
                   lookupData, autofill, lastSettled>>
    /\ UNCHANGED <<design, data, pdfState, viewState, interpState, logoState,
                   previewState, routeState, callState, formatState, dbState>>

\* handleSave: the valid items, the conditions and the store's totals as they are.
handleSave ==
    /\ Len(sent) < MaxSaved
    /\ sent' = Append(sent,
            [items |-> SelectSeq(items, LAMBDA item :
                          item.described /\ item.quantity > 0 /\ item.unitPrice > 0),
             freightValue |-> conditions.freightValue,
             subtotal |-> subtotal,
             totalDiscount |-> totalDiscount,
             grandTotal |-> grandTotal])
    /\ UNCHANGED <<items, conditions, subtotal, totalDiscount, grandTotal>>
    /\ StoreRest

NextStore ==
    \/ addItem
    \/ updateItem
    \/ removeItem
    \/ duplicateItem
    \/ updateConditions
    \/ recalculate
    \/ resetQuotation
    \/ handleSave

(***************************************************************************)
(* The tRPC procedures quotation.* and design.* and the database helpers    *)
(* they call.  A row of table quotations keeps the columns id, userId,      *)
(* quotationNumber, status, customerName and updatedAt; a quotation number  *)
(* COT-YYYY-NNNN is its NNNN, the year being the current one.               *)
(***************************************************************************)
Users == {1, 2}

QuotationIds == {1, 2}

Ok(value) == [ok |-> TRUE, error |-> "", value |-> value]

Err(error) == [ok |-> FALSE, error |-> error, value |-> <<>>]

\* The inputs of quotation.create: customerName, the number of items, and
\* status given or left out.
CreateInputs ==
    [customerName : {"", "A"}, items : {0, 1}, status : {"undefined"}]
    \cup {[customerName |-> "A", items |-> 1, status |-> "approved"]}

CreateInputNamed(input) == input.customerName # ""

\* createQuotationInput.parse(input): customerName.min(1), items.min(1).
CreateInputValid(input) == input.customerName # "" /\ input.items >= 1

\* The fields of updateQuotationInput besides id; each may be left out.
UpdateFields == {"customerName", "status"}

UpdateValue(field) == IF field = "customerName" THEN "B" ELSE "approved"

\* updateData: the provided fields copied, the others not included.
UpdateData(fields) == [f \in fields |-> UpdateValue(f)]

\* COUNT(*) of the quotations of this year, plus one.
generateQuotationNumber == Cardinality(quotations) + 1

\* The unique index on quotationNumber refuses the insert.
DuplicateNumber(number) == \E r \in quotations : r.quotationNumber = number

\* The row quotation.create inserts for a call.
NewRow(call) ==
    [id |-> insertId, userId |-> call.user, quotationNumber |-> call.quotationNumber,
     status |-> IF call.input.status = "undefined" THEN "draft" ELSE call.input.status,
     customerName |-> call.input.customerName,
     updatedAt |-> now + 1]

RowsOfAnyOwner(id, userId) == {r \in quotations : r.id = id}

\* getQuotation(id, userId): the rows WHERE id = id AND userId = userId.
getQuotation(id, userId) == {r \in quotations : r.id = id /\ r.userId = userId}

\* An UPDATE that writes every column, the ones not given with their defaults.
SetWholeRow(r, rowData) ==
    [r EXCEPT !.status = IF "status" \in DOMAIN rowData THEN rowData["status"] ELSE "draft",
              !.customerName = IF "customerName" \in DOMAIN rowData
                               THEN rowData["customerName"] ELSE r.customerName,
              !.updatedAt = now + 1]

\* UPDATE quotations SET data on one row; updatedAt is ON UPDATE
\* CURRENT_TIMESTAMP, set when a column changes.
SetRow(r, rowData) ==
    LET set == [f \in DOMAIN r |-> IF f \in DOMAIN rowData THEN rowData[f] ELSE r[f]]
    IN IF set = r THEN r ELSE [set EXCEPT !.updatedAt = now + 1]

\* updateQuotation(id, userId, data): the table after the UPDATE.
updateQuotation(id, userId, rowData) ==
    {IF r \in getQuotation(id, userId) THEN SetRow(r, rowData) ELSE r : r \in quotations}

\* deleteQuotation(id, userId): the rows the DELETE removes.
deletedRows(id, userId) == getQuotation(id, userId)

\* What a finished call leaves: the procedure, its caller, the id and the
\* other input given, the value returned or the error thrown, and the table
\* as the call found it.
Reply(proc, user, id, input, result) ==
    [proc |-> proc, user |-> user, id |-> id, input |-> input, result |-> result,
     before |-> quotations]

NotFound == Err("Cotacao nao encontrada ou sem permissao")

DbRest ==
    UNCHANGED <<design, data, pdfState, viewState, interpState, logoState,
                previewState, routeState, callState, formatState, storeState,
                wizardState, cnpjState>>

\* quotation.get
QuotationGet(user, id) ==
    /\ reply' = Reply("get", user, id, <<>>,
                    IF getQuotation(id, user) = {} THEN Err("Cotacao nao encontrada")
                    ELSE Ok(CHOOSE r \in getQuotation(id, user) : TRUE))
    /\ UNCHANGED <<quotations, creating, insertId, now, designRows, lastSaved>>
    /\ DbRest

\* quotation.create up to its first query: the input is parsed, then
\* generateQuotationNumber counts the rows.
QuotationCreateNumber(user, input) ==
    /\ IF ~CreateInputValid(input)
       THEN /\ reply' = Reply("create", user, 0, input, Err("BAD_REQUEST"))
            /\ UNCHANGED creating
       ELSE /\ Len(creating) < MaxInflight
            /\ now + Len(creating) < MaxClock
            /\ creating' = Append(creating,
                   [user |-> user, input |-> input,
                    quotationNumber |-> generateQuotationNumber])
            /\ UNCHANGED reply
    /\ UNCHANGED <<quotations, insertId, now, designRows, lastSaved>>
    /\ DbRest

\* quotation.create from createQuotation on: the INSERT, refused by the
\* unique index when a row has the number.
QuotationCreateInsert(k) ==
    /\ k \in 1..Len(creating)
    /\ creating' = SubSeq(creating, 1, k - 1) \o SubSeq(creating, k + 1, Len(creating))
    /\ IF DuplicateNumber(creating[k].quotationNumber)
       THEN /\ reply' = Reply("create", creating[k].user, 0, creating[k].input,
                               Err("ER_DUP_ENTRY"))
            /\ UNCHANGED <<quotations, insertId, now>>
       ELSE /\ quotations' = quotations \cup {NewRow(creating[k])}
            /\ insertId' = insertId + 1
            /\ now' = now + 1
            /\ reply' = Reply("create", creating[k].user, 0, creating[k].input,
                            Ok([id |-> insertId,
                                quotationNumber |-> creating[k].quotationNumber]))
    /\ UNCHANGED <<designRows, lastSaved>>
    /\ DbRest

\* quotation.update
QuotationUpdate(user, id, fields) ==
    /\ now < MaxClock \/ getQuotation(id, user) = {}
    /\ quotations' = updateQuotation(id, user, UpdateData(fields))
    /\ now' = IF quotations' = quotations THEN now ELSE now + 1
    /\ reply' = Reply("update", user, id, fields,
                    IF getQuotation(id, user) = {} THEN NotFound
                    ELSE Ok([success |-> TRUE]))
    /\ UNCHANGED <<creating, insertId, designRows, lastSaved>>
    /\ DbRest

\* quotation.updateStatus
QuotationUpdateStatus(user, id, status) ==
    /\ now < MaxClock \/ getQuotation(id, user) = {}
    /\ quotations' = updateQuotation(id, user, [f \in {"status"} |-> status])
    /\ now' = IF quotations' = quotations THEN now ELSE now + 1
    /\ reply' = Reply("updateStatus", user, id, {"status"},
                    IF getQuotation(id, user) = {} THEN NotFound
                    ELSE Ok([success |-> TRUE]))
    /\ UNCHANGED <<creating, insertId, designRows, lastSaved>>
    /\ DbRest

\* quotation.delete
QuotationDelete(user, id) ==
    /\ now < MaxClock \/ getQuotation(id, user) = {}
    /\ quotations' = quotations \ deletedRows(id, user)
    /\ now' = IF deletedRows(id, user) = {} THEN now ELSE now + 1
    /\ reply' = Reply("delete", user, id, <<>>,
                    IF deletedRows(id, user) = {} THEN NotFound
                    ELSE Ok([success |-> TRUE]))
    /\ UNCHANGED <<creating, insertId, designRows, lastSaved>>
    /\ DbRest

\* The settings a user may save: company, platformTheme and proposalDesign,
\* each the default value or another one.
DesignInputs ==
    [company : {"default", "own"}, platformTheme : {"default", "own"},
     proposalDesign : {"default", "own"}]

DEFAULT_DESIGN_SETTINGS ==
    [company |-> "default", platformTheme |-> "default", proposalDesign |-> "default"]

\* getDesignSettings(userId): the rows of the user.
getDesignSettings(userId) == {r \in designRows : r.userId = userId}

\* upsertDesignSettings(userId, data): the user's row inserted, or replaced.
upsertDesignSettings(userId, settings) ==
    (designRows \ getDesignSettings(userId))
    \cup {[userId |-> userId, company |-> settings.company,
           platformTheme |-> settings.platformTheme,
           proposalDesign |-> settings.proposalDesign]}

DesignGetDefaults(found) == DEFAULT_DESIGN_SETTINGS

\* What design.get returns for the rows getDesignSettings found.
DesignGetResult(found) ==
    IF found = {} THEN DEFAULT_DESIGN_SETTINGS
    ELSE LET settings == CHOOSE r \in found : TRUE
         IN [company |-> settings.company, platformTheme |-> settings.platformTheme,
             proposalDesign |-> settings.proposalDesign]

\* design.get
DesignGet(user) ==
    /\ reply' = Reply("design.get", user, 0, <<>>,
                    Ok(DesignGetResult(getDesignSettings(user))))
    /\ UNCHANGED <<quotations, creating, insertId, now, designRows, lastSaved>>
    /\ DbRest

\* design.save
DesignSave(user, input) ==
    /\ designRows' = upsertDesignSettings(user,
           [company |-> input.company, platformTheme |-> input.platformTheme,
            proposalDesign |-> input.proposalDesign])
    /\ lastSaved' = [lastSaved EXCEPT ![user] = <<input>>]
    /\ reply' = Reply("design.save", user, 0, input, Ok([success |-> TRUE]))
    /\ UNCHANGED <<quotations, creating, insertId, now>>
    /\ DbRest

NextDesign ==
    \/ \E user \in Users : DesignGet(user)
    \/ \E user \in Users, input \in DesignInputs : DesignSave(user, input)

NextQuotations ==
    \/ \E user \in Users, id \in QuotationIds : QuotationGet(user, id)
    \/ \E user \in Users, input \in CreateInputs : QuotationCreateNumber(user, input)
    \/ \E k \in 1..MaxInflight : QuotationCreateInsert(k)
    \/ \E user \in Users, id \in QuotationIds, fields \in SUBSET UpdateFields :
          QuotationUpdate(user, id, fields)
    \/ \E user \in Users, id \in QuotationIds, status \in {"draft", "approved"} :
          QuotationUpdateStatus(user, id, status)
    \/ \E user \in Users, id \in QuotationIds : QuotationDelete(user, id)

Next ==
    \/ NextPdf
    \/ RenderView

(***************************************************************************)
(* Initial states.                                                         *)
(***************************************************************************)
\* new PDFDocument(...): one empty page; nothing drawn, no footer stamped.
InitDocument ==
    /\ y = 0
    /\ nPages = 1
    /\ idx = 0
    /\ sec = 1
    /\ blocks = <<>>
    /\ rows = <<>>
    /\ pagesCount = 0
    /\ fi = 0
    /\ stamps = <<>>

\* No logo stage: the render goes on from the header with logoBuffer = null.
InitNoLogo ==
    /\ logoBuffer = "null"
    /\ requests = 0
    /\ warnings = 0

InitPdf ==
    /\ pc = "header"
    /\ InitDocument
    /\ InitNoLogo

InitPreview ==
    /\ previewBlocks = <<>>
    /\ previewDone = FALSE

\* No request to the download endpoint.
InitRouteIdle ==
    /\ rpc = "idle"
    /\ reqId = <<>>
    /\ owned = {}
    /\ authed = FALSE
    /\ fault = "none"
    /\ res = <<>>

\* One call only.
InitCallsIdle ==
    /\ self = 1
    /\ args = <<>>
    /\ parked = <<>>
    /\ entry = <<>>
    /\ mixed = <<>>

\* Nothing to format.
InitFormatIdle ==
    /\ amountStr = <<>>
    /\ num = NaN
    /\ dateStr = [shape |-> "empty", month |-> 0, day |-> 0]
    /\ fpc = "idle"
    /\ outAmount = Thrown
    /\ outNum = Thrown
    /\ outDate = Thrown
    /\ outDateShort = Thrown

\* An empty database, no call made.
InitDb ==
    /\ quotations = {}
    /\ creating = <<>>
    /\ insertId = 1
    /\ now = 0
    /\ reply = Reply("none", 0, 0, <<>>, Err("none"))
    /\ designRows = {}
    /\ lastSaved = [u \in Users |-> <<>>]

\* The wizard as the store creates it, nobody signed in, nothing in flight.
InitStepsIdle ==
    /\ currentStep = 1
    /\ completedSteps = {}
    /\ customerName = ""
    /\ isAuthenticated = FALSE
    /\ approved = FALSE
    /\ savedId = 0
    /\ saving = <<>>

\* Step 1 as mounted: the CNPJ field empty, no timer, no lookup made.
InitCnpj ==
    /\ cnpjField = ""
    /\ customerCompany = ""
    /\ debounce = <<>>
    /\ lastLookedUp = ""
    /\ fetches = {}
    /\ abortRef = 0
    /\ loading = FALSE
    /\ lookupError = "null"
    /\ lookupData = "null"
    /\ autofill = [of |-> "", field |-> ""]
    /\ lastSettled = [superseded |-> FALSE, changed |-> FALSE]

InitAppIdle ==
    /\ InitDb
    /\ InitStepsIdle
    /\ InitCnpj

\* The store as created: one empty item, default conditions, totals 0.
InitStore ==
    /\ items = <<createEmptyItem(1)>>
    /\ conditions = [freightValue |-> 0]
    /\ subtotal = 0
    /\ totalDiscount = 0
    /\ grandTotal = 0
    /\ sent = <<>>

\* The parts of the state the layout and document runs leave alone.
InitAuxIdle ==
    /\ previewBlocks = <<>>
    /\ previewDone = TRUE
    /\ InitRouteIdle
    /\ InitCallsIdle
    /\ InitFormatIdle
    /\ InitStore
    /\ InitAppIdle

InitView ==
    /\ viewBlocks = <<>>
    /\ viewRows = <<>>
    /\ viewDone = FALSE

InitInterpIdle ==
    /\ tpl = <<>>
    /\ ipc = "idle"
    /\ outPdf = <<>>
    /\ outView = <<>>
    /\ outWizard = <<>>

\* Layout runs: every design, item lists long enough to fill pages.
Init ==
    /\ design \in Designs
    /\ data \in LayoutData
    /\ InitPdf
    /\ InitView
    /\ InitInterpIdle
    /\ InitAuxIdle

Spec == Init /\ [][Next]_vars

\* Document runs: short quotations, every combination of parts.
InitDoc ==
    /\ design \in [paperSize : {"A4"}, fontSize : {"medium"}, showBorderLines : BOOLEAN,
                    showLogo : {FALSE}]
    /\ data \in DocData
    /\ InitPdf
    /\ InitView
    /\ InitInterpIdle
    /\ InitAuxIdle

SpecDoc == InitDoc /\ [][Next]_vars

\* The texts of at most MaxTplLen tokens that use the word w.
Templates(w) ==
    UNION {[1..n -> {"$", "{", "}", ",", w}] : n \in 0..MaxTplLen}

\* Interpolation runs: every short text, each interpolator applied to it.
InitInterp ==
    /\ design = [paperSize |-> "A4", fontSize |-> "medium", showBorderLines |-> TRUE,
                 showLogo |-> FALSE]
    /\ data \in { [nItems |-> 0, descLines |-> 1, present |-> p, conds |-> p2,
                   company |-> CompanyContacts,
                   freightPos |-> TRUE, discountPos |-> TRUE, subtotalPos |-> TRUE,
                   texts |-> NoTexts] :
                  p \in {{}, OptionalCustomer}, p2 \in {ConditionFields} }
    /\ pc = "idle"
    /\ y = 0
    /\ nPages = 1
    /\ idx = 0
    /\ sec = 1
    /\ blocks = <<>>
    /\ rows = <<>>
    /\ pagesCount = 0
    /\ fi = 0
    /\ stamps = <<>>
    /\ viewBlocks = <<>>
    /\ viewRows = <<>>
    /\ viewDone = TRUE
    /\ tpl \in UNION {Templates(w) : w \in Words}
    /\ ipc = "pdf"
    /\ outPdf = <<>>
    /\ outView = <<>>
    /\ outWizard = <<>>
    /\ InitNoLogo
    /\ InitAuxIdle

SpecInterp == InitInterp /\ [][NextInterp]_vars

\* Quotations of one item with every combination of filled and empty optional
\* fields, condition texts and company contacts, with and without footerText.
FieldData ==
    { [nItems |-> 1, descLines |-> 1, present |-> p, conds |-> c, company |-> k,
       freightPos |-> f, discountPos |-> FALSE, subtotalPos |-> TRUE,
       texts |-> [NoTexts EXCEPT !["footerText"] = t]] :
      p \in SUBSET OptionalCustomer, c \in SUBSET ConditionFields,
      k \in SUBSET CompanyContacts, f \in BOOLEAN, t \in {0, 1} }

\* Field runs: the PDF of each of these quotations.
InitFields ==
    /\ design = [paperSize |-> "A4", fontSize |-> "medium", showBorderLines |-> TRUE,
                 showLogo |-> FALSE]
    /\ data \in FieldData
    /\ InitPdf
    /\ viewBlocks = <<>>
    /\ viewRows = <<>>
    /\ viewDone = TRUE
    /\ InitInterpIdle
    /\ InitAuxIdle

SpecFields == InitFields /\ [][NextPdf]_vars

\* Paper runs: the PDF on 'A4', 'Letter' and another paper size name.
InitPaper ==
    /\ design \in [paperSize : {"A4", "Letter", "Legal"}, fontSize : {"medium"},
                    showBorderLines : BOOLEAN, showLogo : {FALSE}]
    /\ data \in {d \in FieldData : /\ d.present \in {{}, OptionalCustomer}
                                     /\ d.conds \in {{}, ConditionFields}
                                     /\ d.company = CompanyContacts}
    /\ InitPdf
    /\ viewBlocks = <<>>
    /\ viewRows = <<>>
    /\ viewDone = TRUE
    /\ InitInterpIdle
    /\ InitAuxIdle

SpecPaper == InitPaper /\ [][NextPdf]_vars

\* Quotations of one item with every combination of empty and filled text slots.
TextData ==
    { [nItems |-> 1, descLines |-> 1, present |-> OptionalCustomer,
       conds |-> ConditionFields, company |-> CompanyContacts,
       freightPos |-> TRUE, discountPos |-> TRUE, subtotalPos |-> TRUE,
       texts |-> t] : t \in [TextSlots -> {0, 1}] }

NextTexts ==
    \/ NextPdf
    \/ RenderView
    \/ RenderPreview

\* Text runs: the three renderers on each of these quotations.
InitTexts ==
    /\ design = [paperSize |-> "A4", fontSize |-> "medium", showBorderLines |-> TRUE,
                 showLogo |-> FALSE]
    /\ data \in TextData
    /\ InitPdf
    /\ InitView
    /\ InitInterpIdle
    /\ InitPreview
    /\ InitRouteIdle
    /\ InitCallsIdle
    /\ InitFormatIdle
    /\ InitStore
    /\ InitAppIdle

SpecTexts == InitTexts /\ [][NextTexts]_vars

\* Quotations and companies with and without a logo URL.
LogoData ==
    { [nItems |-> n, descLines |-> 1, present |-> OptionalCustomer,
       conds |-> ConditionFields, company |-> k,
       freightPos |-> TRUE, discountPos |-> TRUE, subtotalPos |-> TRUE,
       texts |-> [s \in TextSlots |-> t]] :
      n \in 0..1, k \in {CompanyContacts, CompanyContacts \cup {"logoUrl"}},
      t \in {0, 1} }

\* A call of generateQuotationPDF: the document constructed, nothing fetched.
InitCall ==
    /\ pc = "start"
    /\ InitDocument
    /\ InitNoLogo

\* Logo runs: generateQuotationPDF from its call, with and without logo.
InitLogo ==
    /\ design \in [paperSize : {"A4"}, fontSize : {"medium"}, showBorderLines : {TRUE},
                    showLogo : BOOLEAN]
    /\ data \in LogoData
    /\ InitCall
    /\ viewBlocks = <<>>
    /\ viewRows = <<>>
    /\ viewDone = TRUE
    /\ InitInterpIdle
    /\ InitAuxIdle

SpecLogo == InitLogo /\ [][NextRender]_vars

\* Download runs: one request to the endpoint, for every id string, by a
\* caller who owns any of the stored quotations.
InitRoute ==
    /\ design \in [paperSize : {"A4"}, fontSize : {"medium"}, showBorderLines : {TRUE},
                    showLogo : BOOLEAN]
    /\ data \in LogoData
    /\ pc = "idle"
    /\ InitDocument
    /\ InitNoLogo
    /\ viewBlocks = <<>>
    /\ viewRows = <<>>
    /\ viewDone = TRUE
    /\ InitInterpIdle
    /\ previewBlocks = <<>>
    /\ previewDone = TRUE
    /\ rpc = "authenticate"
    /\ reqId \in RequestIds
    /\ owned \in SUBSET StoredIds
    /\ authed = FALSE
    /\ fault = "none"
    /\ res = <<>>
    /\ InitCallsIdle
    /\ InitFormatIdle
    /\ InitStore
    /\ InitAppIdle

SpecRoute == InitRoute /\ [][NextRoute]_vars

\* What a call is given: a quotation of no or one item, without or with
\* intro notes, and a design with logo.
CallArgs ==
    { [design |-> [paperSize |-> "A4", fontSize |-> "medium",
                   showBorderLines |-> TRUE, showLogo |-> TRUE],
       data |-> [nItems |-> n, descLines |-> 1, present |-> OptionalCustomer,
                 conds |-> ConditionFields,
                 company |-> CompanyContacts \cup {"logoUrl"},
                 freightPos |-> TRUE, discountPos |-> TRUE, subtotalPos |-> TRUE,
                 texts |-> [NoTexts EXCEPT !["introNotes"] = n]]] :
      n \in 0..1 }

\* Call runs: MaxCalls calls, the first one running, the others to come.
InitCalls ==
    /\ args \in [Calls -> CallArgs]
    /\ self = 1
    /\ parked = [c \in Calls |-> FreshContext(c)]
    /\ entry = <<"none", 0>>
    /\ mixed = [c \in Calls |-> FALSE]
    /\ design = FreshContext(1).design
    /\ data = FreshContext(1).data
    /\ pc = FreshContext(1).pc
    /\ y = FreshContext(1).y
    /\ nPages = FreshContext(1).nPages
    /\ idx = FreshContext(1).idx
    /\ sec = FreshContext(1).sec
    /\ blocks = FreshContext(1).blocks
    /\ rows = FreshContext(1).rows
    /\ pagesCount = FreshContext(1).pagesCount
    /\ fi = FreshContext(1).fi
    /\ stamps = FreshContext(1).stamps
    /\ logoBuffer = FreshContext(1).logoBuffer
    /\ requests = FreshContext(1).requests
    /\ warnings = FreshContext(1).warnings
    /\ viewBlocks = <<>>
    /\ viewRows = <<>>
    /\ viewDone = TRUE
    /\ InitInterpIdle
    /\ previewBlocks = <<>>
    /\ previewDone = TRUE
    /\ InitRouteIdle
    /\ InitFormatIdle
    /\ InitStore
    /\ InitAppIdle

SpecCalls == InitCalls /\ [][NextCalls]_vars

\* The numbers given to the client's formatCurrency.
Numbers == {NaN, Infinity(1), Infinity(0 - 1), Finite(0), Finite(1005), Finite(0 - 1500)}

\* Formatting runs: every short string, number and date through the formatters.
InitFormat ==
    /\ design = [paperSize |-> "A4", fontSize |-> "medium", showBorderLines |-> TRUE,
                 showLogo |-> FALSE]
    /\ data \in {d \in TextData : \A t \in TextSlots : d.texts[t] = 0}
    /\ pc = "idle"
    /\ InitDocument
    /\ InitNoLogo
    /\ viewBlocks = <<>>
    /\ viewRows = <<>>
    /\ viewDone = TRUE
    /\ InitInterpIdle
    /\ previewBlocks = <<>>
    /\ previewDone = TRUE
    /\ InitRouteIdle
    /\ InitCallsIdle
    /\ amountStr \in AmountStrings
    /\ num \in Numbers
    /\ dateStr \in DateStrings
    /\ fpc = "amount"
    /\ outAmount = Thrown
    /\ outNum = Thrown
    /\ outDate = Thrown
    /\ outDateShort = Thrown
    /\ InitStore
    /\ InitAppIdle

SpecFormat == InitFormat /\ [][NextFormat]_vars

\* The wizard: the store as created, nothing else running.
InitWizard ==
    /\ design = [paperSize |-> "A4", fontSize |-> "medium", showBorderLines |-> TRUE,
                 showLogo |-> FALSE]
    /\ data \in {d \in TextData : \A t \in TextSlots : d.texts[t] = 0}
    /\ pc = "idle"
    /\ InitDocument
    /\ InitNoLogo
    /\ viewBlocks = <<>>
    /\ viewRows = <<>>
    /\ viewDone = TRUE
    /\ InitInterpIdle
    /\ previewBlocks = <<>>
    /\ previewDone = TRUE
    /\ InitRouteIdle
    /\ InitCallsIdle
    /\ InitFormatIdle
    /\ InitStore
    /\ InitAppIdle

SpecStore == InitWizard /\ [][NextStore]_vars

\* Nothing rendered, interpolated, routed or formatted.
InitBackground ==
    /\ design = [paperSize |-> "A4", fontSize |-> "medium", showBorderLines |-> TRUE,
                 showLogo |-> FALSE]
    /\ data \in {d \in TextData : \A t \in TextSlots : d.texts[t] = 0}
    /\ pc = "idle"
    /\ InitDocument
    /\ InitNoLogo
    /\ viewBlocks = <<>>
    /\ viewRows = <<>>
    /\ viewDone = TRUE
    /\ InitInterpIdle
    /\ previewBlocks = <<>>
    /\ previewDone = TRUE
    /\ InitRouteIdle
    /\ InitCallsIdle
    /\ InitFormatIdle

\* The quotation procedures called by two users on an empty table.
InitQuotations ==
    /\ InitBackground
    /\ InitStore
    /\ InitDb
    /\ InitStepsIdle
    /\ InitCnpj

SpecQuotations == InitQuotations /\ [][NextQuotations]_vars

SpecDesign == InitQuotations /\ [][NextDesign]_vars

(***************************************************************************)
(* The wizard: the four steps, the stepper, and the save and approve       *)
(* buttons of the preview.  Step4Preview is mounted while currentStep = 4. *)
(***************************************************************************)
CustomerNames == {"", " ", "A"}

\* name.trim()
trim(name) == IF name = " " THEN "" ELSE name

\* items.filter(i => i.description.trim() && i.quantity > 0 && i.unitPrice > 0)
validItems ==
    SelectSeq(items, LAMBDA item : item.described /\ item.quantity > 0 /\ item.unitPrice > 0)

hasValidItem == validItems # <<>>

\* Math.max(currentStep, ...completedSteps, 1)
MaxStep ==
    LET reached == {currentStep, 1} \cup completedSteps
    IN CHOOSE m \in reached : \A s \in reached : s <= m

\* WizardStepper: isAccessible of a step.
isAccessible(step) == step <= MaxStep

\* markStepComplete(step): the steps complete afterwards.
markStepComplete(step) == completedSteps \cup {step}

\* setStep(step).  WizardContainer renders Step4Preview only on step 4: on
\* leaving it the component's approved and savedId are gone, and a mutation
\* still in flight has no component to report to.
setStep(step) ==
    /\ currentStep' = step
    /\ IF currentStep = 4 /\ step # 4
       THEN /\ approved' = FALSE
            /\ savedId' = 0
            /\ saving' = [k \in 1..Len(saving) |-> [saving[k] EXCEPT !.mounted = FALSE]]
       ELSE UNCHANGED <<approved, savedId, saving>>

\* saveMutation.isPending
isPending == \E k \in 1..Len(saving) : saving[k].mounted

WizardRest ==
    UNCHANGED <<design, data, pdfState, viewState, interpState, logoState,
                previewState, routeState, callState, formatState, cnpjState>>

\* Step 1, the name field: updateInfo({ customerName }).
updateInfo(name) ==
    /\ currentStep = 1
    /\ customerName' = name
    /\ UNCHANGED <<currentStep, completedSteps, isAuthenticated, approved, savedId, saving>>
    /\ UNCHANGED <<storeState, dbState>>
    /\ WizardRest

\* Step 1, handleNext.
Step1Next ==
    /\ currentStep = 1
    /\ IF trim(customerName) = ""
       THEN UNCHANGED <<currentStep, completedSteps, approved, savedId, saving>>
       ELSE /\ completedSteps' = markStepComplete(1)
            /\ setStep(2)
    /\ UNCHANGED <<customerName, isAuthenticated, storeState, dbState>>
    /\ WizardRest

\* Step 2, an edit of an item.
Step2UpdateItem ==
    /\ currentStep = 2
    /\ updateItem

\* Step 2, handleNext.
Step2Next ==
    /\ currentStep = 2
    /\ IF ~hasValidItem
       THEN UNCHANGED <<currentStep, completedSteps, approved, savedId, saving>>
       ELSE /\ completedSteps' = markStepComplete(2)
            /\ setStep(3)
    /\ UNCHANGED <<customerName, isAuthenticated, storeState, dbState>>
    /\ WizardRest

\* Step 2, the back button.
Step2Back ==
    /\ currentStep = 2
    /\ setStep(1)
    /\ UNCHANGED <<completedSteps, customerName, isAuthenticated, storeState, dbState>>
    /\ WizardRest

\* Step 3, the next button.  Step3FormatTexts is not among the sources: it
\* is given what the specification asks of the wizard, a validated record,
\* so it goes on only with a name and a valid item, as steps 1 and 2 do.
Step3Next ==
    /\ currentStep = 3
    /\ IF trim(customerName) = "" \/ ~hasValidItem
       THEN UNCHANGED <<currentStep, completedSteps, approved, savedId, saving>>
       ELSE /\ completedSteps' = markStepComplete(3)
            /\ setStep(4)
    /\ UNCHANGED <<customerName, isAuthenticated, storeState, dbState>>
    /\ WizardRest

\* Step 4, the back button.
Step4Back ==
    /\ currentStep = 4
    /\ setStep(3)
    /\ UNCHANGED <<completedSteps, customerName, isAuthenticated, storeState, dbState>>
    /\ WizardRest

\* WizardStepper: a click on a step's button.
StepperClick(step) ==
    /\ isAccessible(step)
    /\ setStep(step)
    /\ UNCHANGED <<completedSteps, customerName, isAuthenticated, storeState, dbState>>
    /\ WizardRest

\* What handleSave(status) hands to saveMutation.mutate.
SaveInput(status) ==
    [customerName |-> customerName, items |-> Len(validItems), status |-> status]

\* saveMutation.mutate(input): the request leaves.
mutate(input) == saving' = Append(saving, [input |-> input, mounted |-> TRUE])

\* Step 4, "Salvar Rascunho": handleSave("draft").
ClickSaveDraft ==
    /\ currentStep = 4
    /\ isAuthenticated /\ savedId = 0 /\ ~isPending
    /\ now + Len(saving) < MaxClock
    /\ mutate(SaveInput("draft"))
    /\ UNCHANGED <<currentStep, completedSteps, customerName, isAuthenticated, approved,
                   savedId>>
    /\ UNCHANGED <<storeState, dbState>>
    /\ WizardRest

\* Step 4, handleApprove.
handleApprove ==
    /\ currentStep = 4
    /\ ~approved /\ ~isPending
    /\ completedSteps' = markStepComplete(4)
    /\ approved' = TRUE
    /\ IF isAuthenticated /\ savedId = 0
       THEN /\ now + Len(saving) < MaxClock
            /\ mutate(SaveInput("approved"))
       ELSE UNCHANGED saving
    /\ UNCHANGED <<currentStep, customerName, isAuthenticated, savedId>>
    /\ UNCHANGED <<storeState, dbState>>
    /\ WizardRest

\* quotation.create answers mutation k: the row is inserted and onSuccess
\* sets savedId, or the call fails and onError only shows a toast.
SaveMutationSettles(k) ==
    /\ k \in 1..Len(saving)
    /\ saving' = SubSeq(saving, 1, k - 1) \o SubSeq(saving, k + 1, Len(saving))
    /\ LET input == saving[k].input
           call == [user |-> 1, input |-> input,
                    quotationNumber |-> generateQuotationNumber]
       IN IF ~CreateInputValid(input)
          THEN /\ reply' = Reply("create", 1, 0, input, Err("BAD_REQUEST"))
               /\ UNCHANGED <<quotations, insertId, now, savedId>>
          ELSE IF DuplicateNumber(call.quotationNumber)
          THEN /\ reply' = Reply("create", 1, 0, input, Err("ER_DUP_ENTRY"))
               /\ UNCHANGED <<quotations, insertId, now, savedId>>
          ELSE /\ quotations' = quotations \cup {NewRow(call)}
               /\ insertId' = insertId + 1
               /\ now' = now + 1
               /\ reply' = Reply("create", 1, 0, input,
                               Ok([id |-> insertId,
                                   quotationNumber |-> call.quotationNumber]))
               /\ savedId' = IF saving[k].mounted THEN insertId ELSE savedId
    /\ UNCHANGED <<currentStep, completedSteps, customerName, isAuthenticated, approved>>
    /\ UNCHANGED <<creating, designRows, lastSaved, storeState>>
    /\ WizardRest

\* Step 4, "Nova Cotação": handleNewQuotation.
handleNewQuotation ==
    /\ currentStep = 4
    /\ approved
    /\ items' = <<createEmptyItem(1)>>
    /\ conditions' = [freightValue |-> 0]
    /\ subtotal' = 0
    /\ totalDiscount' = 0
    /\ grandTotal' = 0
    /\ completedSteps' = {}
    /\ customerName' = ""
    /\ setStep(1)
    /\ UNCHANGED <<sent, isAuthenticated, dbState>>
    /\ WizardRest

NextSteps ==
    \/ \E name \in CustomerNames : updateInfo(name)
    \/ Step1Next
    \/ Step2UpdateItem
    \/ Step2Next
    \/ Step2Back
    \/ Step3Next
    \/ Step4Back
    \/ \E step \in 1..4 : StepperClick(step)
    \/ ClickSaveDraft
    \/ handleApprove
    \/ \E k \in 1..MaxInflight : SaveMutationSettles(k)
    \/ handleNewQuotation

\* The wizard as opened, by a visitor or by a signed-in user.
InitSteps ==
    /\ InitBackground
    /\ InitStore
    /\ InitDb
    /\ InitCnpj
    /\ currentStep = 1
    /\ completedSteps = {}
    /\ customerName = ""
    /\ isAuthenticated \in BOOLEAN
    /\ approved = FALSE
    /\ savedId = 0
    /\ saving = <<>>

SpecSteps == InitSteps /\ [][NextSteps]_vars

(***************************************************************************)
(* The CNPJ lookup of step 1.  cnpjField holds the digits of the masked    *)
(* field; of the customer fields an answer fills, customerCompany (the     *)
(* razao_social of the answer, named here by its CNPJ) is kept.            *)
(***************************************************************************)
\* Two CNPJs of fourteen digits.
Cnpjs == {"A", "B"}

\* What the field can hold: nothing, fewer than fourteen digits, a CNPJ.
CnpjFields == {"", "1"} \cup Cnpjs

\* isValidCnpjFormat(cnpj): fourteen digits.
isValidCnpjFormat(cnpj) == cnpj \in Cnpjs

CnpjRest ==
    UNCHANGED <<design, data, pdfState, viewState, interpState, logoState,
                previewState, routeState, callState, formatState, storeState,
                dbState, wizardState>>

\* lookup(digits) up to its fetch, for fourteen digits (both callers check
\* them): the controller in abortRef is aborted, a new one takes its place.
lookup(digits) ==
    /\ abortRef < MaxLookups
    /\ fetches' = {[f EXCEPT !.aborted = f.aborted \/ f.controller = abortRef] :
                      f \in fetches}
                  \cup {[controller |-> abortRef + 1, cnpj |-> digits, aborted |-> FALSE]}
    /\ abortRef' = abortRef + 1
    /\ loading' = TRUE
    /\ lookupError' = "null"
    /\ UNCHANGED lookupData

\* handleCnpjChange(rawValue): the field is set, the timer cleared, and a
\* new timer set for fourteen digits that differ from the last lookup.
handleCnpjChange(value) ==
    /\ cnpjField' = value
    /\ debounce' = IF isValidCnpjFormat(value) /\ value # lastLookedUp
                   THEN <<value>> ELSE <<>>
    /\ UNCHANGED <<customerCompany, lastLookedUp, fetches, abortRef, loading, lookupError,
                   lookupData, autofill, lastSettled>>
    /\ CnpjRest

\* The timer of handleCnpjChange runs, up to its await.
DebounceFires ==
    /\ debounce # <<>>
    /\ debounce' = <<>>
    /\ lastLookedUp' = debounce[1]
    /\ lookup(debounce[1])
    /\ UNCHANGED <<cnpjField, customerCompany, autofill, lastSettled>>
    /\ CnpjRest

\* handleManualLookup, up to its await; the button is shown for fourteen
\* digits and disabled while loading.
handleManualLookup ==
    /\ isValidCnpjFormat(cnpjField)
    /\ ~loading
    /\ lastLookedUp' = cnpjField
    /\ lookup(cnpjField)
    /\ UNCHANGED <<cnpjField, customerCompany, debounce, autofill, lastSettled>>
    /\ CnpjRest

\* What a settled lookup leaves in lastSettled.
Settled(f) ==
    lastSettled' = [superseded |-> f.aborted,
                    changed |-> <<lookupData', lookupError', customerCompany'>>
                                # <<lookupData, lookupError, customerCompany>>]

\* The fetch answers 200: data is set and the caller fills the form.
ResponseOk(f) ==
    /\ f \in fetches /\ ~f.aborted
    /\ fetches' = fetches \ {f}
    /\ lookupData' = f.cnpj
    /\ lookupError' = "null"
    /\ loading' = FALSE
    /\ customerCompany' = f.cnpj
    /\ autofill' = [of |-> f.cnpj, field |-> cnpjField]
    /\ UNCHANGED <<cnpjField, debounce, lastLookedUp, abortRef>>
    /\ Settled(f)
    /\ CnpjRest

\* The fetch answers with another status, or fails.
ResponseFails(f, message) ==
    /\ f \in fetches /\ ~f.aborted
    /\ fetches' = fetches \ {f}
    /\ lookupError' = message
    /\ lookupData' = "null"
    /\ loading' = FALSE
    /\ UNCHANGED <<cnpjField, customerCompany, debounce, lastLookedUp, abortRef, autofill>>
    /\ Settled(f)
    /\ CnpjRest

\* The fetch of an aborted controller rejects with AbortError: lookup
\* returns null and sets nothing.
AbortedRejects(f) ==
    /\ f \in fetches /\ f.aborted
    /\ fetches' = fetches \ {f}
    /\ UNCHANGED <<cnpjField, customerCompany, debounce, lastLookedUp, abortRef, loading,
                   lookupError, lookupData, autofill>>
    /\ Settled(f)
    /\ CnpjRest

NextCnpj ==
    \/ \E value \in CnpjFields : handleCnpjChange(value)
    \/ DebounceFires
    \/ handleManualLookup
    \/ \E f \in fetches : ResponseOk(f)
    \/ \E f \in fetches, message \in {"404", "400", "status", "network"} :
            ResponseFails(f, message)
    \/ \E f \in fetches : AbortedRejects(f)

\* Step 1 as mounted on the new wizard.
InitLookups ==
    /\ InitBackground
    /\ InitStore
    /\ InitDb
    /\ InitStepsIdle
    /\ InitCnpj

SpecCnpj == InitLookups /\ [][NextCnpj]_vars

(***************************************************************************)
(* Claims.                                                                 *)
(***************************************************************************)
PlacedKinds == {"customer", "totals", "conditions", "headerText", "introNotes",
                "commercialNotes", "technicalNotes", "closingNotes"}

\* C1: every block other than the item table (customer panel, totals panel,
\* commercial conditions, each text section) ends at or above the bottom
\* margin, page height - 40pt; no such block is drawn across it.
C1_BlocksAboveBottomMargin ==
    \A i \in 1..Len(blocks) :
        blocks[i].kind \in PlacedKinds => blocks[i].bottom <= bottomMargin

\* C2: on every page that holds item rows a table header row is drawn above
\* the rows of that page, so a page break of the row loop is followed by the
\* header before the next row.
C2_HeaderAboveRowsOfEveryPage ==
    \A i \in 1..Len(rows) :
        \E j \in 1..Len(blocks) :
            /\ blocks[j].kind = "tableHeader"
            /\ blocks[j].page = rows[i].page
            /\ blocks[j].bottom <= rows[i].top

C4_StripeFollowsAbsoluteIndex ==
    /\ \A i \in 1..Len(rows) :
          /\ rows[i].idx = i - 1
          /\ rows[i].shaded <=> ((i - 1) % 2 = 1)
    /\ \A i \in 1..(Len(rows) - 1) : rows[i].shaded # rows[i + 1].shaded
    /\ \A i \in 1..Len(viewRows) : viewRows[i].shaded <=> ((i - 1) % 2 = 1)

C4_Witness ==
    /\ viewDone
    /\ Len(viewRows) >= 2
    /\ \E i \in 2..Len(rows) :
          /\ rows[i].broke
          /\ rows[i].page = rows[i - 1].page + 1
          /\ rows[i].page >= 3
          /\ rows[i].shaded
          /\ ~rows[i - 1].shaded

\* C5: an item row whose description wraps to k > 1 lines is higher than a
\* one-line row, its last line ends within the row (so the next row starts
\* below it) and above the bottom margin.
C5_WrappedRowGrows ==
    \A i \in 1..Len(rows) :
        rows[i].lines > 1 =>
            /\ rows[i].rowH > fs.body + 8000
            /\ rows[i].textBottom <= rows[i].top + rows[i].rowH
            /\ rows[i].textBottom <= bottomMargin

BlockOrder ==
    <<"header", "infoBar", "customer", "headerText", "introNotes", "tableHeader",
      "totals", "conditions", "commercialNotes", "technicalNotes", "closingNotes",
      "footer">>

Rank(kind) == CHOOSE r \in 1..Len(BlockOrder) : BlockOrder[r] = kind

KindsOf(bs) == {bs[i].kind : i \in 1..Len(bs)}

\* C6: the blocks are emitted in the order header, info bar, customer panel,
\* headerText, introNotes, item table, totals, conditions, commercialNotes,
\* technicalNotes, closingNotes, footer; an empty text slot emits nothing and
\* leaves the order of the others as it is.
C6_BlocksInFixedOrder ==
    /\ \A i, j \in 1..Len(blocks) :
          i < j => /\ Rank(blocks[i].kind) <= Rank(blocks[j].kind)
                   /\ blocks[i].kind = blocks[j].kind => blocks[i].kind = "footer"
    /\ rows # <<>> => /\ "tableHeader" \in KindsOf(blocks)
                      /\ "totals" \in KindsOf(blocks) => Len(rows) = data.nItems
    /\ pc = "done" =>
          KindsOf(blocks) =
              {"header", "infoBar", "customer", "tableHeader", "totals",
               "conditions", "footer"}
              \cup {s \in TextSlots \ {"footerText"} : data.texts[s] > 0}

C6_Witness ==
    /\ pc = "done"
    /\ data.texts["headerText"] = 0
    /\ data.texts["introNotes"] > 0
    /\ data.texts["commercialNotes"] > 0
    /\ data.texts["technicalNotes"] = 0
    /\ data.texts["closingNotes"] > 0
    /\ Len(rows) = 2
    /\ Len(blocks) = 10

\* The PDF document as a sequence of blocks, the per-page footers taken as one.
PdfDocument ==
    LET content == SelectSeq(blocks, LAMBDA b : b.kind # "footer")
    IN [i \in 1..(Len(content) + 1) |->
          IF i <= Len(content)
          THEN ViewBlock(content[i].kind, content[i].content)
          ELSE ViewBlock("footer", footerText)]

\* C7: for the same quotation, company and design the saved-quotation view
\* and the PDF show the same blocks with the same content in the same order.
C7_ViewShowsWhatPdfShows ==
    (pc = "done" /\ viewDone) => PdfDocument = viewBlocks

HasLine(c, label, amount) ==
    \E i \in 1..(Len(c) - 1) : c[i] = label /\ c[i + 1] = amount

Count(c, label) == Cardinality({i \in 1..Len(c) : c[i] = label})

TotalsPanelOk(c) ==
    /\ HasLine(c, "Subtotal:", "fmt(subtotal)")
    /\ Count(c, "Subtotal:") = 1
    /\ HasLine(c, "TOTAL:", "fmt(grandTotal)")
    /\ Count(c, "TOTAL:") = 1
    /\ Count(c, "Desconto:") = (IF data.discountPos THEN 1 ELSE 0)
    /\ data.discountPos => HasLine(c, "Desconto:", "-fmt(totalDiscount)")
    /\ Count(c, "Frete:") = (IF data.freightPos THEN 1 ELSE 0)

\* C10: the totals panel of the PDF and of the saved-quotation view shows the
\* subtotal line and exactly one grand-total line always, the discount line
\* iff totalDiscount > 0, the freight line iff freightValue > 0, each with
\* the amount given in the input.
C10_TotalsPanel ==
    /\ \A i \in 1..Len(blocks) :
          blocks[i].kind = "totals" => TotalsPanelOk(blocks[i].content)
    /\ \A i \in 1..Len(viewBlocks) :
          viewBlocks[i].kind = "totals" => TotalsPanelOk(viewBlocks[i].content)

\* The value the documented placeholder w stands for.
CorrespondingValues(w) ==
    CASE w \in OptionalCustomer -> {OrEmpty(w, w \in data.present)}
      [] w \in ConditionFields -> {OrEmpty(w, w \in data.conds)}
      [] w = "companyPhone" -> {OrEmpty(w, "phone" \in data.company)}
      [] w = "companyEmail" -> {OrEmpty(w, "email" \in data.company)}
      [] w \in {"quotationDate", "createdAt"} ->
           {<<Val("quotationDate")>>, <<Val("fmtDate(quotationDate)")>>}
      [] w \in {"grandTotal", "subtotal", "totalDiscount"} -> {<<Val("fmt(" \o w \o ")")>>}
      [] OTHER -> {<<Val(w)>>}

\* C8: in the PDF a placeholder ${name} whose name belongs to the documented
\* vocabulary is replaced by the corresponding value of the quotation or the
\* company.
C8_VocabularyReplacedInPdf ==
    \A w \in Vocabulary :
        (ipc = "done" /\ tpl = <<"$", "{", w, "}">>) =>
            outPdf \in CorrespondingValues(w)

\* C9: in each of the three interpolators a placeholder whose name has no
\* entry in the variable map is left in the output as it was written.
C9_UnknownLeftAsWritten ==
    \A w \in Words :
        (ipc = "done" /\ tpl = <<"$", "{", w, "}">>) =>
            /\ w \notin DOMAIN varsPdf => outPdf = Lits(tpl)
            /\ w \notin DOMAIN varsView => outView = Lits(tpl)
            /\ w \notin DOMAIN variablesWizard => outWizard = Lits(tpl)

\* The label the PDF gives to an optional customer or condition field.
FieldLabel(f) ==
    CASE f = "customerCompany" -> "Empresa"
      [] f = "customerCNPJ" -> "CNPJ"
      [] f = "customerEmail" -> "E-mail"
      [] f = "customerPhone" -> "Telefone"
      [] f = "customerAddress" -> "Endereco"
      [] f = "paymentTerms" -> "Pagamento"
      [] f = "deliveryTime" -> "Prazo de Entrega"
      [] f = "freight" -> "Frete"
      [] f = "warranty" -> "Garantia"

Shows(b, label) == \E i \in 1..Len(b.content) : b.content[i] = label

\* C11: in the PDF, the label of an optional customer field (company, tax ID,
\* e-mail, phone, address) or of a commercial-condition field (payment terms,
\* delivery time, freight, warranty) whose value is empty appears in no block.
C11_EmptyFieldHasNoLabel ==
    /\ \A f \in OptionalCustomer \ {"reference"} :
          f \notin data.present =>
              \A i \in 1..Len(blocks) : ~Shows(blocks[i], FieldLabel(f))
    /\ \A f \in ConditionFields :
          f \notin data.conds =>
              \A i \in 1..Len(blocks) : ~Shows(blocks[i], FieldLabel(f))

TitledSlots == {"headerText", "introNotes", "commercialNotes", "technicalNotes",
                "closingNotes"}

\* C12: in the PDF, the saved-quotation view and the wizard preview, a text
\* slot that is the empty string produces neither body text nor a section
\* title: no block of the slot carries a title or a line of text.
C12_EmptySlotShowsNothing ==
    \A s \in TitledSlots :
        data.texts[s] = 0 =>
            /\ \A i \in 1..Len(blocks) : blocks[i].kind # s
            /\ \A i \in 1..Len(viewBlocks) : viewBlocks[i].kind # s
            /\ \A i \in 1..Len(previewBlocks) :
                  previewBlocks[i].kind = s =>
                      /\ previewBlocks[i].content = <<>>
                      /\ previewBlocks[i].body = 0

\* C13: every footer stamped on a page of the PDF carries the interpolated
\* footerText when footerText is not empty, and otherwise the company name,
\* then ' | phone' iff the company phone is not empty, then ' | email' iff the
\* company e-mail is not empty; the finished document has a footer on its
\* pages also when all text slots are empty.
C13_FooterTextOrCompanyLine ==
    /\ \A i \in 1..Len(stamps) :
          stamps[i].text =
              IF data.texts["footerText"] > 0 THEN <<"footerText">>
              ELSE CASE data.company = {} -> <<"companyName">>
                     [] data.company = {"phone"} -> <<"companyName", " | ", "phone">>
                     [] data.company = {"email"} -> <<"companyName", " | ", "email">>
                     [] OTHER -> <<"companyName", " | ", "phone", " | ", "email">>
    /\ pc = "done" => /\ Len(stamps) = nPages
                      /\ \A i \in 1..Len(stamps) : stamps[i].text # <<>>

C13_Witness ==
    /\ pc = "done"
    /\ \A s \in TextSlots : data.texts[s] = 0
    /\ data.company = {"email"}
    /\ Len(stamps) = 1
    /\ stamps[1].text = <<"companyName", " | ", "email">>

\* C14: one logo fetch makes at most two HTTP requests: the request for the
\* logo URL and, after a 301/302 answer, one request for the location; an
\* answer to that second request that is a redirect again starts no third.
C14_AtMostTwoRequests == requests <= 2

LogoWanted == design.showLogo /\ "logoUrl" \in data.company

\* C15: a failed logo fetch, or bytes that cannot be embedded, never make
\* generateQuotationPDF reject: the call goes on to a finished document with
\* every other block and no logo in the header; without showLogo or without
\* logo URL no request is made at all.
C15_LogoFailureIsNotFatal ==
    /\ pc # "rejected"
    /\ pc # "done" => ENABLED NextRender
    /\ ~LogoWanted => requests = 0 /\ logoBuffer = "null"
    /\ pc = "done" =>
          /\ KindsOf(blocks) =
                {"header", "infoBar", "customer", "tableHeader", "totals",
                 "conditions", "footer"}
                \cup {s \in TextSlots \ {"footerText"} : data.texts[s] > 0}
          /\ Len(rows) = data.nItems
          /\ Len(stamps) = nPages
          /\ Shows(blocks[1], "companyName")
          /\ logoBuffer # "image" => ~Shows(blocks[1], "logo")
          /\ warnings = (IF LogoWanted /\ logoBuffer # "image" THEN 1 ELSE 0)

C15_Witness ==
    /\ pc = "done"
    /\ LogoWanted
    /\ requests = 2
    /\ logoBuffer = "null"
    /\ warnings = 1
    /\ blocks[1].content = <<"companyName">>
    /\ Len(rows) = 1

\* The string is a decimal number: digits and nothing else.
IsNumber(str) == str # <<>> /\ \A i \in 1..Len(str) : str[i] \in Digits

\* The response the endpoint owes to a finished request.
ExpectedResponse ==
    IF ~authed THEN Json(401)
    ELSE IF ~IsNumber(reqId) THEN Json(400)
    ELSE IF fault = "load" THEN Json(500)
    ELSE IF Decimal(reqId) \notin owned THEN Json(404)
    ELSE IF fault = "render" THEN Json(500)
    ELSE Pdf

\* C16: a request to GET /api/quotation/:id/pdf gets exactly one response:
\* 401 when authentication fails, 400 when the id is not a number, 404 when
\* the caller owns no quotation with that id, 500 when loading or rendering
\* fails, the PDF only after generateQuotationPDF has resolved; nothing of a
\* PDF is sent for a failed render.
C16_ExactlyOneResponse ==
    /\ Len(res) <= 1
    /\ rpc = "end" => res = <<ExpectedResponse>>
    /\ rpc # "end" => res = <<>>
    /\ \A i \in 1..Len(res) : res[i].type = "pdf" => pc = "done"

Finished(c) == Ctx(c).pc = "done"

\* What call c produced: the pages, the blocks with their text and
\* positions, the rows, the footers.
Output(c) ==
    [nPages |-> Ctx(c).nPages, blocks |-> Ctx(c).blocks, rows |-> Ctx(c).rows,
     stamps |-> Ctx(c).stamps]

SameInput(c, d) == args[c] = args[d] /\ Ctx(c).logoBuffer = Ctx(d).logoBuffer

C18_InterleavedAsAlone ==
    /\ \A c \in Calls : Ctx(c).design = args[c].design /\ Ctx(c).data = args[c].data
    /\ \A c, d \in Calls :
          (Finished(c) /\ Finished(d) /\ mixed[c] /\ ~mixed[d] /\ SameInput(c, d))
              => Output(c) = Output(d)

C18_Witness ==
    /\ Finished(1) /\ Finished(2) /\ Finished(3)
    /\ ~mixed[1] /\ mixed[2] /\ mixed[3]
    /\ SameInput(1, 2)
    /\ args[3] # args[2]
    /\ Output(3) # Output(2)
    /\ Output(2) = Output(1)

\* The string spells a finite amount: [-]digits[.digits], all of it.
RECURSIVE AllDigits(_)
AllDigits(str) == str = <<>> \/ (Head(str) \in Digits /\ AllDigits(Tail(str)))

ParseableAmount(str) ==
    LET body == IF str # <<>> /\ Head(str) = "-" THEN Tail(str) ELSE str
    IN \E k \in 1..Len(body) :
          /\ AllDigits(SubSeq(body, 1, k))
          /\ \/ k = Len(body)
             \/ /\ body[k + 1] = "."
                /\ k + 1 < Len(body)
                /\ AllDigits(SubSeq(body, k + 2, Len(body)))

NaNLike(out) ==
    ~out.threw /\ \E i \in 1..Len(out.text) : out.text[i].sym \in {"NaN", "Infinity"}

\* C19: formatCurrency given an unparseable or non-finite amount, and
\* formatDate given an unparseable date, fail with an error: for such input
\* they return no string, and no formatter returns a 'NaN'-like text.
C19_InvalidInputFails ==
    /\ (fpc \notin {"idle", "amount"} /\ ~ParseableAmount(amountStr)) => outAmount.threw
    /\ (fpc \notin {"idle", "amount", "num"} /\ num.kind # "finite") => outNum.threw
    /\ (fpc \in {"dateShort", "done"} /\ ~ValidDate(dateStr)) => outDate.threw
    /\ ~NaNLike(outAmount)
    /\ ~NaNLike(outNum)
    /\ ~NaNLike(outDate)

\* C20: in every state of the wizard store reachable by its actions, and in
\* every quotation the wizard saves, grandTotal = subtotal - totalDiscount
\* + freightValue.
C20_GrandTotalIdentity ==
    /\ grandTotal = subtotal - totalDiscount + conditions.freightValue
    /\ \A k \in 1..Len(sent) :
          sent[k].grandTotal
              = sent[k].subtotal - sent[k].totalDiscount + sent[k].freightValue

\* C24: paperSize 'Letter' gives a 612 x 792 pt page and every other value a
\* 595.28 x 841.89 pt page; the margins are 40 pt on all four sides and the
\* content width is the page width less 80 pt; the page size of the layout
\* arithmetic is the page size declared to the PDF document, so every footer
\* is placed 35 pt above the bottom edge of the declared page.
C24_PageGeometry ==
    LET declared == PdfKitSize(DocumentSize(design))
    IN /\ <<pageWidth(design), pageHeight(design)>> =
             IF design.paperSize = "Letter" THEN <<612000, 792000>>
             ELSE <<595280, 841890>>
       /\ <<pageWidth(design), pageHeight(design)>> = declared
       /\ \A side \in DOMAIN DocumentMargins : DocumentMargins[side] = 40000
       /\ contentWidth(design) = pageWidth(design) - 80000
       /\ bottomMargin = declared[2] - 40000
       /\ \A i \in 1..Len(blocks) :
             blocks[i].kind = "footer" => blocks[i].top = declared[2] - 35000

C24_Witness ==
    /\ pc = "done"
    /\ design.paperSize = "Legal"
    /\ \E i \in 1..Len(blocks) :
          blocks[i].kind = "footer" /\ blocks[i].top = 841890 - 35000

\* C27: in every state of the wizard store reachable by its actions the items
\* list is non-empty, each item's subtotal is quantity x unitPrice x
\* (1 - discount/100), subtotal is the sum of the items' subtotals and
\* totalDiscount the sum of the items' discount amounts.
C27_StoreTotalsMatchItems ==
    /\ items # <<>>
    /\ \A k \in 1..Len(items) :
          items[k].subtotal * 100 =
              items[k].quantity * items[k].unitPrice * (100 - items[k].discount)
    /\ subtotal = SumSubtotal(items)
    /\ totalDiscount = SumDiscount(items)

\* The quotation the last call named belonged to another user.
OwnedByAnother ==
    \E r \in reply.before : r.id = reply.id /\ r.userId # reply.user

\* C21: whatever calls several users have made, a get returns only a
\* quotation of its caller, and a get, update, updateStatus or delete of
\* another user's quotation fails with the not-found error and leaves every
\* stored quotation as it was.
C21_OthersQuotationsOutOfReach ==
    /\ (reply.proc = "get" /\ reply.result.ok) =>
          /\ reply.result.value \in reply.before
          /\ reply.result.value.userId = reply.user
    /\ (reply.proc = "get" /\ OwnedByAnother) =>
          reply.result = Err("Cotacao nao encontrada")
    /\ (reply.proc \in {"update", "updateStatus", "delete"} /\ OwnedByAnother) =>
          /\ reply.result = NotFound
          /\ quotations = reply.before

C21_Witness ==
    /\ reply.proc \in {"update", "updateStatus", "delete"}
    /\ reply.result = NotFound
    /\ OwnedByAnother
    /\ \E r \in quotations : r.userId = reply.user

\* C22: quotation.create with an empty customerName or an empty items list
\* is rejected with an error; the rejected call stores no quotation and no
\* quotation number is generated for it.
C22_InvalidCreateIsRejected ==
    /\ (reply.proc = "create"
          /\ (reply.input.customerName = "" \/ reply.input.items = 0)) =>
          /\ reply.result = Err("BAD_REQUEST")
          /\ quotations = reply.before
    /\ \A k \in 1..Len(creating) :
          creating[k].input.customerName # "" /\ creating[k].input.items > 0
    /\ \A r \in quotations : r.customerName # ""

C22_Witness ==
    /\ reply.proc = "create"
    /\ reply.input.items = 0
    /\ reply.input.customerName = "A"
    /\ reply.result = Err("BAD_REQUEST")
    /\ quotations # {}

\* C26: after any interleaving of quotation.create and quotation.delete
\* calls every create is given a number no stored quotation has: the stored
\* numbers are pairwise distinct and no create fails on the unique index.
C26_CreateGetsFreshNumber ==
    /\ \A r1, r2 \in quotations :
          r1.quotationNumber = r2.quotationNumber => r1 = r2
    /\ reply.result # Err("ER_DUP_ENTRY")

\* After an update or updateStatus every row found is still stored with its
\* id, owner and quotationNumber, with the columns of `kept` that the input
\* omits as they were, and a row the call did not name wholly as it was.
UpdateKeeps(kept) ==
    reply.proc \in {"update", "updateStatus"} =>
        /\ Cardinality(quotations) = Cardinality(reply.before)
        /\ \A b \in reply.before :
              \E r \in quotations :
                  /\ r.id = b.id
                  /\ r.userId = b.userId
                  /\ r.quotationNumber = b.quotationNumber
                  /\ \A f \in kept \ reply.input : r[f] = b[f]
                  /\ (b.id # reply.id \/ b.userId # reply.user) => r = b

\* C25 as stated: quotation.update changes only the fields present in its
\* input; every stored field that the input omits keeps its value, and the
\* id, owner and quotationNumber are never changed by update or updateStatus.
C25_EveryOmittedFieldKept ==
    UpdateKeeps({"status", "customerName", "updatedAt"})

\* C25, amended: quotation.update changes only the fields present in its
\* input and the row's updatedAt timestamp; every other stored field that
\* the input omits keeps its value, and the id, owner and quotationNumber are
\* never changed by update or updateStatus.
C25_OmittedFieldsKeptButUpdatedAt ==
    UpdateKeeps({"status", "customerName"})

C25_Witness ==
    /\ reply.proc = "update"
    /\ reply.result.ok
    /\ reply.input = {"customerName"}
    /\ \E r \in quotations :
          /\ r.id = reply.id
          /\ r.customerName = "B"
          /\ r.status = "approved"
          /\ \E b \in reply.before : b.id = r.id /\ b.updatedAt < r.updatedAt

C28_SavedApprovedIsApprovedOnServer ==
    (savedId # 0 /\ approved) =>
        \E r \in quotations : r.id = savedId /\ r.status = "approved"

C30_AutofillIsOfTheFieldsCnpj ==
    /\ autofill.of # "" => autofill.of = autofill.field
    /\ lastSettled.superseded => ~lastSettled.changed
    /\ fetches = {} => ~loading

====
